---- MODULE Spec2Model ----
(***************************************************************************)
(* payme backend: the month aggregation and open/closed lifecycle.         *)
(*                                                                         *)
(* The record store is a set of tables (sets of rows).  Every handler is   *)
(* split at its storage statements (the .await points): one action per     *)
(* statement, the Rust code between two statements belongs to the action   *)
(* of the statement that precedes it.  A request occupies a slot of `req`  *)
(* from its first statement until its response; the response stays in the  *)
(* slot until the slot takes the next request.                             *)
(*                                                                         *)
(* Amounts are integers (minor units).  Labels and descriptions are        *)
(* modelled by their length, the only thing the handlers look at.          *)
(* A calendar period (year, month) is one number, read from `clock`.       *)
(***************************************************************************)
EXTENDS Integers, FiniteSets, Sequences, TLC

\* ------------------------------------------------------------------ bounds
MaxPeriod     == 2   \* calendar periods the clock runs through
MaxCategories == 2   \* category templates ever inserted (aggregation)
MaxItems      == 2   \* item rows ever inserted (aggregation)
MaxIncome     == 1   \* income rows ever inserted (aggregation)
MaxFixed      == 1   \* fixed-expense rows ever inserted
FewRows       == 1   \* rows ever inserted per table (lifecycle specifications)
MaxExpenses   == 2   \* fixed-expense rows ever inserted (fixed-expense specification)

Users   == {1, 2}
Slots   == {1, 2}
Amounts == {-1, 0, 1}      \* request amounts: one invalid, the boundary, one positive
Labels  == {0, 1, 101}     \* category label lengths: too short, valid, too long
Descriptions == {1}        \* item description / income and expense label lengths
None    == {}              \* Option::None of a payload field, SQL NULL, no row
Some(x) == {x}             \* Option::Some(x), a fetched row
The(o)  == CHOOSE x \in o : TRUE

VARIABLES
    months,             \* rows [id, user_id, period, is_closed, closed_at], closed_at = 0 is NULL
    budget_categories,  \* rows [id, user_id, label, default_amount]
    fixed_expenses,     \* rows [id, user_id, label, amount]
    monthly_budgets,    \* rows [id, month_id, category_id, allocated_amount]
    income_entries,     \* rows [id, month_id, label, amount]
    items,              \* rows [id, month_id, category_id, description, amount]
    monthly_snapshots,  \* rows [id, month_id, pdf_data]
    nextId,             \* table name -> next autoincrement id
    clock,              \* the current calendar period (Utc::now())
    req                 \* slot -> the request running in it / its response

tables == <<months, budget_categories, fixed_expenses, monthly_budgets,
            income_entries, items, monthly_snapshots>>
vars == <<months, budget_categories, fixed_expenses, monthly_budgets,
          income_entries, items, monthly_snapshots, nextId, clock, req>>

TableNames == {"months", "budget_categories", "fixed_expenses", "monthly_budgets",
               "income_entries", "items", "monthly_snapshots"}

\* ------------------------------------------------------------------ helpers
RECURSIVE SumAmount(_)
SumAmount(S) ==
    IF S = {} THEN 0
    ELSE LET r == CHOOSE x \in S : TRUE IN r.amount + SumAmount(S \ {r})

RECURSIVE SumAllocated(_)
SumAllocated(S) ==
    IF S = {} THEN 0
    ELSE LET r == CHOOSE x \in S : TRUE IN r.allocated_amount + SumAllocated(S \ {r})

MinId(S) == CHOOSE r \in S : \A x \in S : r.id <= x.id

\* ids a request may name: every id handed out so far and one that does not exist
Ids(t) == 1..nextId[t]

NoSummary == [month |-> None, income_entries |-> {}, fixed_expenses |-> {},
              budgets |-> {}, items |-> {}]

\* a free slot / the fields every request carries
Idle == [op |-> "none", pc |-> "idle", result |-> "none", user |-> 0, period |-> 0,
         month_id |-> 0, id |-> 0, category_id |-> None, label |-> None,
         amount |-> None, closed0 |-> FALSE, refs |-> {}, valid |-> TRUE, wrote |-> {},
         existing |-> None, rows |-> {},
         summary |-> NoSummary, pdf |-> None, out |-> None]

\* A response is handed to the client before anything else happens: it is an
\* output, not a state of the program.
Quiet == \A t \in Slots : req[t].pc # "done"
Free(s) == Quiet /\ req[s].pc = "idle"
At(s, pc) == Quiet /\ req[s].pc = pc
Set(s, r) == req' = [req EXCEPT ![s] = r]

\* the month named by a request was, when the request's first statement ran,
\* an existing closed month of the caller
ClosedFor(u, m) == \E r \in months : r.id = m /\ r.user_id = u /\ r.is_closed

\* what a request names, as it is when the request's first statement runs: a row
\* of another user ("foreign"), or no row at all ("missing"); m = 0 names no month
Refs(kind, rows, u) ==
    IF rows = {} THEN {<<"missing", kind>>}
    ELSE IF \E x \in rows : x.user_id # u THEN {<<"foreign", kind>>}
    ELSE {}
MonthRefs(u, m) ==
    IF m = 0 THEN {} ELSE Refs("month", { x \in months : x.id = m }, u)
CategoryRefs(u, c) == Refs("category", { x \in budget_categories : x.id = c }, u)
ExpenseRefs(u, e) == Refs("fixed_expense", { x \in fixed_expenses : x.id = e }, u)
\* the allocation row a request names: no row at all ("missing"), or a row of
\* another month than the one the request names ("elsewhere")
AllocationRefs(m, b) ==
    LET rows == { x \in monthly_budgets : x.id = b }
    IN IF rows = {} THEN {<<"missing", "allocation">>}
       ELSE IF \E x \in rows : x.month_id # m THEN {<<"elsewhere", "allocation">>}
       ELSE {}

Begin(op, u, m) == [Idle EXCEPT !.op = op, !.user = u, !.month_id = m,
                                !.closed0 = ClosedFor(u, m), !.refs = MonthRefs(u, m)]

\* a client that may send its last request once more keeps it in slot 0 of req
Noting == 0 \in DOMAIN req

\* the response: Ok(out) or Err(result); out is a set of records in every case.
\* The handler's locals are dropped, the request's arguments stay for the record
\* (the payload and the row id only with a client that keeps its request).
Finish(r, result, out) ==
    [Idle EXCEPT !.pc = "done", !.op = r.op, !.user = r.user, !.month_id = r.month_id,
                 !.period = r.period, !.closed0 = r.closed0, !.refs = r.refs, !.valid = r.valid,
                 !.wrote = r.wrote,
                 !.id = IF Noting THEN r.id ELSE 0,
                 !.category_id = IF Noting THEN r.category_id ELSE None,
                 !.label = IF Noting THEN r.label ELSE None,
                 !.amount = IF Noting THEN r.amount ELSE None,
                 !.result = result, !.out = out]
Fail(r, error) == Finish(r, error, {})

\* bookkeeping: the tables in which the request has changed a row so far
Wrote(r, t, changed) == IF changed THEN [r EXCEPT !.wrote = @ \cup {t}] ELSE r

\* the length validation without its maximum
ValidLabel_nomax(l, max) == \A x \in l : x >= 1

\* payload.validate(): #[validate(length(min = 1, max = ..))], #[validate(range(min = 0.0))]
ValidLabel(l, max) == \A x \in l : x >= 1 /\ x <= max
ValidAmount(a) == \A x \in a : x >= 0

unwrap_or(opt, default) == IF opt = None THEN default ELSE The(opt)

Init ==
    /\ months = {}
    /\ budget_categories = {}
    /\ fixed_expenses = {}
    /\ monthly_budgets = {}
    /\ income_entries = {}
    /\ items = {}
    /\ monthly_snapshots = {}
    /\ nextId = [t \in TableNames |-> 1]
    /\ clock = 1
    /\ req = [s \in Slots |-> Idle]

\* the empty database, and a client that keeps its last request
InitRetry ==
    /\ months = {}
    /\ budget_categories = {}
    /\ fixed_expenses = {}
    /\ monthly_budgets = {}
    /\ income_entries = {}
    /\ items = {}
    /\ monthly_snapshots = {}
    /\ nextId = [t \in TableNames |-> 1]
    /\ clock = 1
    /\ req = [s \in {0} \cup Slots |-> Idle]

\* the calendar moves on
Tick ==
    /\ Quiet
    /\ clock < MaxPeriod
    /\ clock' = clock + 1
    /\ UNCHANGED <<tables, nextId, req>>

\* ------------------------------------------------------------------ record store
\* Constraints of the schema, which the handlers rely on (INSERT OR IGNORE, .ok()).
\* the tables without these constraints
MonthInsertable_any(u, p) == TRUE
BudgetInsertable_any(m, c) == TRUE

\* months: UNIQUE (user_id, year, month)
MonthInsertable(u, p) == ~ \E r \in months : r.user_id = u /\ r.period = p
\* monthly_budgets: UNIQUE (month_id, category_id)
BudgetInsertable(m, c) == ~ \E r \in monthly_budgets : r.month_id = m /\ r.category_id = c
\* a snapshot table without the constraint
SnapshotInsertable_any(m) == TRUE

\* monthly_snapshots: at most one row per month
SnapshotInsertable(m) == ~ \E r \in monthly_snapshots : r.month_id = m

Bump(t) == nextId' = [nextId EXCEPT ![t] = @ + 1]

\* ------------------------------------------------------------------ months.rs
\* the per-category sum without its filter
WithSpent_all(budgets, its) ==
    { [b EXCEPT !.spent_amount = SumAmount(its)] : b \in budgets }

\* get_month_summary, lines 208-218: spent_amount of every budget line
WithSpent(budgets, its) ==
    { [b EXCEPT !.spent_amount = SumAmount({i \in its : i.category_id = b.category_id})]
      : b \in budgets }

\* get_month_summary, lines 220-237: the totals and the result
MonthSummary(month, income, fixed, budgets, its) ==
    LET bs == WithSpent(budgets, its)
        total_income == SumAmount(income)
        total_fixed == SumAmount(fixed)
        total_budgeted == SumAllocated(bs)
        total_spent == SumAmount(its)
        remaining == total_income - total_fixed - total_spent
    IN [month |-> month, income_entries |-> income, fixed_expenses |-> fixed,
        budgets |-> bs, items |-> its, total_income |-> total_income,
        total_fixed |-> total_fixed, total_budgeted |-> total_budgeted,
        total_spent |-> total_spent, remaining |-> remaining]

\* SELECT .. FROM monthly_budgets mb JOIN budget_categories bc ON mb.category_id = bc.id
BudgetsWithCategory(m) ==
    { [id |-> b.id, month_id |-> b.month_id, category_id |-> b.category_id,
       category_label |-> c.label, allocated_amount |-> b.allocated_amount,
       spent_amount |-> 0]
      : <<b, c>> \in { x \in monthly_budgets \X budget_categories :
                         x[1].month_id = m /\ x[1].category_id = x[2].id } }

\* SELECT .. FROM items i JOIN budget_categories bc ON i.category_id = bc.id
ItemsWithCategory(m) ==
    { [id |-> i.id, month_id |-> i.month_id, category_id |-> i.category_id,
       category_label |-> c.label, description |-> i.description, amount |-> i.amount]
      : <<i, c>> \in { x \in items \X budget_categories :
                         x[1].month_id = m /\ x[1].category_id = x[2].id } }

\* the five SELECTs of get_month_summary, one statement each
sum_month(s) ==
    /\ At(s, "sum_month")
    /\ LET r == req[s]
           found == { m \in months : m.id = r.month_id }
       IN Set(s, IF found = {} THEN Fail(r, "Database")
                 ELSE [r EXCEPT !.pc = "sum_income", !.summary.month = found])
    /\ UNCHANGED <<tables, nextId, clock>>

sum_income(s) ==
    /\ At(s, "sum_income")
    /\ LET r == req[s]
       IN Set(s, [r EXCEPT !.pc = "sum_fixed",
                  !.summary.income_entries = { i \in income_entries : i.month_id = r.month_id }])
    /\ UNCHANGED <<tables, nextId, clock>>

\* the SELECT without its WHERE user_id = ?
sum_fixed_all(s) ==
    /\ At(s, "sum_fixed")
    /\ Set(s, [req[s] EXCEPT !.pc = "sum_budgets", !.summary.fixed_expenses = fixed_expenses])
    /\ UNCHANGED <<tables, nextId, clock>>

sum_fixed(s) ==
    /\ At(s, "sum_fixed")
    /\ LET r == req[s]
       IN Set(s, [r EXCEPT !.pc = "sum_budgets",
                  !.summary.fixed_expenses = { e \in fixed_expenses : e.user_id = r.user }])
    /\ UNCHANGED <<tables, nextId, clock>>

sum_budgets(s) ==
    /\ At(s, "sum_budgets")
    /\ LET r == req[s]
       IN Set(s, [r EXCEPT !.pc = "sum_items",
                  !.summary.budgets = BudgetsWithCategory(r.month_id)])
    /\ UNCHANGED <<tables, nextId, clock>>

\* the last SELECT, the aggregation, and the return to the caller
sum_items(s) ==
    /\ At(s, "sum_items")
    /\ LET r == req[s]
           sm == r.summary
           summary == MonthSummary(The(sm.month), sm.income_entries, sm.fixed_expenses,
                                   sm.budgets, ItemsWithCategory(r.month_id))
       IN Set(s, IF r.op = "close_month"
                 THEN [r EXCEPT !.pc = "close_render", !.summary = summary]
                 ELSE Finish(r, "Ok", {summary}))
    /\ UNCHANGED <<tables, nextId, clock>>

\* ORDER BY year DESC, month DESC: the rows as a sequence, latest period first
RECURSIVE LatestFirst(_)
LatestFirst(S) ==
    IF S = {} THEN <<>>
    ELSE LET x == CHOOSE x \in S : \A y \in S : y.period <= x.period
         IN <<x>> \o LatestFirst(S \ {x})

\* list_months, lines 26-38: SELECT .. FROM months WHERE user_id = ? ORDER BY ..
lm_select(s, u) ==
    /\ Free(s)
    /\ LET r == Begin("list_months", u, 0)
       IN Set(s, Finish(r, "Ok", {LatestFirst({ m \in months : m.user_id = u })}))
    /\ UNCHANGED <<tables, nextId, clock>>

\* get_or_create_current_month, lines 55-69: now, SELECT the month of (user, year, month)
goc_select(s, u) ==
    /\ Free(s)
    /\
         LET existing == { m \in months : m.user_id = u /\ m.period = clock }
             r == [Begin("get_or_create_current_month", u, 0) EXCEPT
                      !.period = clock,
                      !.refs = IF existing = {} THEN {<<"missing", "month">>} ELSE {}]
         IN Set(s, IF existing # {}
                   THEN [r EXCEPT !.pc = "sum_month", !.month_id = The(existing).id]
                   ELSE [r EXCEPT !.pc = "goc_insert"])
    /\ UNCHANGED <<tables, nextId, clock>>

\* a month that is born closed
NewMonth_closed(id, u, p) ==
    [id |-> id, user_id |-> u, period |-> p, is_closed |-> TRUE, closed_at |-> p]

\* a row of months as INSERT INTO months (user_id, year, month) creates it
NewMonth(id, u, p) ==
    [id |-> id, user_id |-> u, period |-> p, is_closed |-> FALSE, closed_at |-> 0]

\* lines 71-78: INSERT INTO months .. RETURNING id
goc_insert(s) ==
    /\ At(s, "goc_insert")
    /\ LET r == req[s]
           id == nextId["months"]
       IN IF MonthInsertable(r.user, r.period)
          THEN /\ months' = months \cup {NewMonth(id, r.user, r.period)}
               /\ Bump("months")
               /\ Set(s, [Wrote(r, "months", TRUE) EXCEPT
                             !.pc = "goc_categories", !.month_id = id])
          ELSE /\ Set(s, Fail(r, "Database"))
               /\ UNCHANGED <<months, nextId>>
    /\ UNCHANGED <<budget_categories, fixed_expenses, monthly_budgets, income_entries,
                   items, monthly_snapshots, clock>>

\* the SELECT without its WHERE user_id = ?
goc_categories_all(s) ==
    /\ At(s, "goc_categories")
    /\ Set(s, [req[s] EXCEPT !.rows = budget_categories,
                   !.pc = IF budget_categories = {} THEN "sum_month" ELSE "goc_copy"])
    /\ UNCHANGED <<tables, nextId, clock>>

\* lines 80-85: SELECT id, default_amount FROM budget_categories WHERE user_id = ?
goc_categories(s) ==
    /\ At(s, "goc_categories")
    /\ LET r == req[s]
           categories == { c \in budget_categories : c.user_id = r.user }
       IN Set(s, [r EXCEPT !.rows = categories,
                           !.pc = IF categories = {} THEN "sum_month" ELSE "goc_copy"])
    /\ UNCHANGED <<tables, nextId, clock>>

\* the loop with `?` in the place of .ok(): a refused INSERT ends the request
goc_copy_strict(s) ==
    /\ At(s, "goc_copy")
    /\ LET r == req[s]
           c == MinId(r.rows)
           rest == r.rows \ {c}
       IN IF BudgetInsertable(r.month_id, c.id)
          THEN /\ monthly_budgets' = monthly_budgets \cup
                     {[id |-> nextId["monthly_budgets"], month_id |-> r.month_id,
                       category_id |-> c.id, allocated_amount |-> c.default_amount]}
               /\ Bump("monthly_budgets")
               /\ Set(s, [Wrote(r, "monthly_budgets", TRUE) EXCEPT
                             !.rows = rest,
                             !.pc = IF rest = {} THEN "sum_month" ELSE "goc_copy"])
          ELSE /\ Set(s, Fail(r, "Database"))
               /\ UNCHANGED <<monthly_budgets, nextId>>
    /\ UNCHANGED <<months, budget_categories, fixed_expenses, income_entries, items,
                   monthly_snapshots, clock>>

\* lines 87-97: one turn of the loop, INSERT INTO monthly_budgets .. .ok()
goc_copy(s) ==
    /\ At(s, "goc_copy")
    /\ LET r == req[s]
           c == MinId(r.rows)
           rest == r.rows \ {c}
       IN /\ IF BudgetInsertable(r.month_id, c.id)
             THEN /\ monthly_budgets' = monthly_budgets \cup
                        {[id |-> nextId["monthly_budgets"], month_id |-> r.month_id,
                          category_id |-> c.id, allocated_amount |-> c.default_amount]}
                  /\ Bump("monthly_budgets")
             ELSE UNCHANGED <<monthly_budgets, nextId>>
          /\ Set(s, [Wrote(r, "monthly_budgets", BudgetInsertable(r.month_id, c.id)) EXCEPT
                        !.rows = rest,
                        !.pc = IF rest = {} THEN "sum_month" ELSE "goc_copy"])
    /\ UNCHANGED <<months, budget_categories, fixed_expenses, income_entries, items,
                   monthly_snapshots, clock>>

\* get_month, lines 132-141: SELECT the month WHERE id = ? AND user_id = ?
gm_select(s, u) ==
    /\ Free(s)
    /\ \E m \in Ids("months") :
         LET r == Begin("get_month", u, m)
             month == { x \in months : x.id = m /\ x.user_id = u }
         IN Set(s, IF month = {} THEN Fail(r, "NotFound")
                   ELSE [r EXCEPT !.pc = "sum_month"])
    /\ UNCHANGED <<tables, nextId, clock>>

\* the check with the is_closed test left out
close_month_check_open(u, m) ==
    IF \E x \in months : x.id = m /\ x.user_id = u THEN "Ok" ELSE "NotFound"

\* the check with AND user_id = ? left out
close_month_check_any(u, m) ==
    LET month == { x \in months : x.id = m }
    IN IF month = {} THEN "NotFound"
       ELSE IF The(month).is_closed THEN "AlreadyClosed"
       ELSE "Ok"

\* close_month, lines 261-274: the month of the caller, and its is_closed flag
close_month_check(u, m) ==
    LET month == { x \in months : x.id = m /\ x.user_id = u }
    IN IF month = {} THEN "NotFound"
       ELSE IF The(month).is_closed THEN "AlreadyClosed"
       ELSE "Ok"

close_select(s, u) ==
    /\ Free(s)
    /\ \E m \in Ids("months") :
         LET r == Begin("close_month", u, m)
             check == close_month_check(u, m)
         IN Set(s, IF check # "Ok" THEN Fail(r, check) ELSE [r EXCEPT !.pc = "sum_month"])
    /\ UNCHANGED <<tables, nextId, clock>>

\* pdf::generate_pdf(&summary): the report is a rendering of the summary
generate_pdf(summary) ==
    [month_id |-> summary.month.id, total_income |-> summary.total_income,
     total_fixed |-> summary.total_fixed, total_budgeted |-> summary.total_budgeted,
     total_spent |-> summary.total_spent, remaining |-> summary.remaining]

\* line 277: the renderer returns the bytes or fails (PaymeError::Internal)
close_render(s) ==
    /\ At(s, "close_render")
    /\ LET r == req[s]
       IN \/ Set(s, [r EXCEPT !.pc = "close_snapshot", !.pdf = Some(generate_pdf(r.summary))])
          \/ Set(s, Fail(r, "Internal"))
    /\ UNCHANGED <<tables, nextId, clock>>

\* lines 279-283: INSERT INTO monthly_snapshots (month_id, pdf_data), then `?`
InsertSnapshot(m, pdf_data) ==
    /\ monthly_snapshots' = monthly_snapshots \cup
          {[id |-> nextId["monthly_snapshots"], month_id |-> m, pdf_data |-> pdf_data]}
    /\ Bump("monthly_snapshots")

\* the INSERT with its error dropped (.ok() for `?`)
close_snapshot_ok(s) ==
    /\ At(s, "close_snapshot")
    /\ LET r == req[s]
       IN \/ /\ SnapshotInsertable(r.month_id)
             /\ InsertSnapshot(r.month_id, The(r.pdf))
          \/ UNCHANGED <<monthly_snapshots, nextId>>
    /\ Set(s, [req[s] EXCEPT !.pc = "close_update"])
    /\ UNCHANGED <<months, budget_categories, fixed_expenses, monthly_budgets,
                   income_entries, items, clock>>

close_snapshot(s) ==
    /\ At(s, "close_snapshot")
    /\ LET r == req[s]
       IN \/ /\ SnapshotInsertable(r.month_id)
             /\ InsertSnapshot(r.month_id, The(r.pdf))
             /\ Set(s, [Wrote(r, "monthly_snapshots", TRUE) EXCEPT !.pc = "close_update"])
          \/ /\ Set(s, Fail(r, "Database"))      \* the statement fails
             /\ UNCHANGED <<monthly_snapshots, nextId>>
    /\ UNCHANGED <<months, budget_categories, fixed_expenses, monthly_budgets,
                   income_entries, items, clock>>

\* the UPDATE that sets is_closed alone
CloseMonthRows_flag(m, now) ==
    { IF x.id = m THEN [x EXCEPT !.is_closed = TRUE] ELSE x : x \in months }

\* the UPDATE that sets closed_at alone
CloseMonthRows_stamp(m, now) ==
    { IF x.id = m THEN [x EXCEPT !.closed_at = now] ELSE x : x \in months }

\* lines 285-290: UPDATE months SET is_closed = 1, closed_at = ? WHERE id = ?
CloseMonthRows(m, now) ==
    { IF x.id = m THEN [x EXCEPT !.is_closed = TRUE, !.closed_at = now] ELSE x : x \in months }

\* the UPDATE as a statement that waits until no other request is between its
\* statements
close_update_wait(s) ==
    /\ At(s, "close_update")
    /\ \A t \in Slots \ {s} : req[t].pc = "idle"
    /\ LET r == req[s]
           closed == CloseMonthRows(r.month_id, clock)
       IN \/ /\ months' = closed
             /\ Set(s, [Wrote(r, "months", closed # months) EXCEPT !.pc = "close_reselect"])
          \/ /\ Set(s, Fail(r, "Database"))      \* the statement fails
             /\ UNCHANGED months
    /\ UNCHANGED <<budget_categories, fixed_expenses, monthly_budgets, income_entries,
                   items, monthly_snapshots, nextId, clock>>

close_update(s) ==
    /\ At(s, "close_update")
    /\ LET r == req[s]
           closed == CloseMonthRows(r.month_id, clock)
       IN \/ /\ months' = closed
             /\ Set(s, [Wrote(r, "months", closed # months) EXCEPT !.pc = "close_reselect"])
          \/ /\ Set(s, Fail(r, "Database"))      \* the statement fails
             /\ UNCHANGED months
    /\ UNCHANGED <<budget_categories, fixed_expenses, monthly_budgets, income_entries,
                   items, monthly_snapshots, nextId, clock>>

\* lines 292-299: SELECT the updated month, Ok(Json(updated))
close_reselect(s) ==
    /\ At(s, "close_reselect")
    /\ LET r == req[s]
           updated == { x \in months : x.id = r.month_id }
       IN Set(s, IF updated = {} THEN Fail(r, "Database") ELSE Finish(r, "Ok", updated))
    /\ UNCHANGED <<tables, nextId, clock>>

\* get_month_pdf, lines 321-328
pdf_month(s, u) ==
    /\ Free(s)
    /\ \E m \in Ids("months") :
         LET r == Begin("get_month_pdf", u, m)
             month == { x \in months : x.id = m /\ x.user_id = u }
         IN Set(s, IF month = {} THEN Fail(r, "NotFound")
                   ELSE [r EXCEPT !.pc = "pdf_snapshot"])
    /\ UNCHANGED <<tables, nextId, clock>>

\* a download that renders and stores the report of a month that has none
pdf_snapshot_lazy(s) ==
    /\ At(s, "pdf_snapshot")
    /\ LET r == req[s]
           snapshot == { x \in monthly_snapshots : x.month_id = r.month_id }
           blank == [month_id |-> r.month_id, total_income |-> 0, total_fixed |-> 0,
                     total_budgeted |-> 0, total_spent |-> 0, remaining |-> 0]
       IN IF snapshot = {}
          THEN /\ InsertSnapshot(r.month_id, blank)
               /\ Set(s, Finish(Wrote(r, "monthly_snapshots", TRUE), "Ok", {blank}))
          ELSE /\ Set(s, Finish(r, "Ok", {MinId(snapshot).pdf_data}))
               /\ UNCHANGED <<monthly_snapshots, nextId>>
    /\ UNCHANGED <<months, budget_categories, fixed_expenses, monthly_budgets,
                   income_entries, items, clock>>

\* lines 330-343: SELECT pdf_data FROM monthly_snapshots WHERE month_id = ?
pdf_snapshot(s) ==
    /\ At(s, "pdf_snapshot")
    /\ LET r == req[s]
           snapshot == { x \in monthly_snapshots : x.month_id = r.month_id }
       IN Set(s, IF snapshot = {} THEN Fail(r, "NotFound")
                 ELSE Finish(r, "Ok", {MinId(snapshot).pdf_data}))
    /\ UNCHANGED <<tables, nextId, clock>>

\* ------------------------------------------------------------------ items.rs
\* verify_month_access, lines 222-235
items_verify_month_access(u, m) ==
    IF \E x \in months : x.id = m /\ x.user_id = u THEN "Ok" ELSE "NotFound"

\* the guard with the is_closed test left out
items_verify_month_not_closed_open(u, m) == items_verify_month_access(u, m)

\* verify_month_not_closed, lines 237-254
items_verify_month_not_closed(u, m) ==
    LET month == { x \in months : x.id = m /\ x.user_id = u }
    IN IF month = {} THEN "NotFound"
       ELSE IF The(month).is_closed THEN "MonthClosed"
       ELSE "Ok"

\* the category check with AND user_id = ? left out
items_category_check_any(u, c) ==
    IF \E x \in budget_categories : x.id = c THEN "Ok" ELSE "InvalidCategory"

\* SELECT id FROM budget_categories WHERE id = ? AND user_id = ?  (lines 91-97, 161-167)
items_category_check(u, c) ==
    IF \E x \in budget_categories : x.id = c /\ x.user_id = u THEN "Ok" ELSE "InvalidCategory"

Running(op) == Cardinality({ t \in Slots : req[t].op = op })

\* list_items, line 52
li_verify(s, u) ==
    /\ Free(s)
    /\ \E m \in Ids("months") :
         LET r == Begin("list_items", u, m)
             check == items_verify_month_access(u, m)
         IN Set(s, IF check # "Ok" THEN Fail(r, check) ELSE [r EXCEPT !.pc = "li_select"])
    /\ UNCHANGED <<tables, nextId, clock>>

\* list_items, lines 54-67
li_select(s) ==
    /\ At(s, "li_select")
    /\ Set(s, Finish(req[s], "Ok", ItemsWithCategory(req[s].month_id)))
    /\ UNCHANGED <<tables, nextId, clock>>

\* create_item, lines 88-89: payload.validate()?, verify_month_not_closed(..)?
ci_verify(s, u, n) ==
    /\ Free(s)
    /\ nextId["items"] + Running("create_item") <= n
    /\ \E m \in Ids("months"), c \in Ids("budget_categories"),
          d \in Descriptions, a \in Amounts :
         LET r == [Begin("create_item", u, m) EXCEPT
                      !.category_id = Some(c), !.label = Some(d), !.amount = Some(a),
                      !.refs = @ \cup CategoryRefs(u, c),
                      !.valid = ValidLabel(Some(d), 200) /\ ValidAmount(Some(a))]
             check == items_verify_month_not_closed(u, m)
         IN Set(s, IF ~ r.valid THEN Fail(r, "Validation")
                   ELSE IF check # "Ok" THEN Fail(r, check)
                   ELSE [r EXCEPT !.pc = "ci_category"])
    /\ UNCHANGED <<tables, nextId, clock>>

\* the insert reached without the category check
ci_category_skip(s) ==
    /\ At(s, "ci_category")
    /\ Set(s, [req[s] EXCEPT !.pc = "ci_insert"])
    /\ UNCHANGED <<tables, nextId, clock>>

\* create_item, lines 91-97
ci_category(s) ==
    /\ At(s, "ci_category")
    /\ LET r == req[s]
           check == items_category_check(r.user, The(r.category_id))
       IN Set(s, IF check # "Ok" THEN Fail(r, check) ELSE [r EXCEPT !.pc = "ci_insert"])
    /\ UNCHANGED <<tables, nextId, clock>>

\* create_item, lines 99-117: INSERT INTO items .. RETURNING id
ci_insert(s) ==
    /\ At(s, "ci_insert")
    /\ LET r == req[s]
           row == [id |-> nextId["items"], month_id |-> r.month_id,
                   category_id |-> The(r.category_id), description |-> The(r.label),
                   amount |-> The(r.amount)]
       IN /\ items' = items \cup {row}
          /\ Bump("items")
          /\ Set(s, Finish(Wrote(r, "items", TRUE), "Ok", {row}))
    /\ UNCHANGED <<months, budget_categories, fixed_expenses, monthly_budgets,
                   income_entries, monthly_snapshots, clock>>

\* update_item, lines 143-144
ui_verify(s, u) ==
    /\ Free(s)
    /\ \E m \in Ids("months"), id \in Ids("items"),
          c \in {None} \cup { Some(x) : x \in Ids("budget_categories") },
          d \in {None} \cup { Some(x) : x \in Descriptions },
          a \in {None} \cup { Some(x) : x \in Amounts } :
         LET r == [Begin("update_item", u, m) EXCEPT
                      !.id = id, !.category_id = c, !.label = d, !.amount = a,
                      !.refs = @ \cup (IF c = None THEN {} ELSE CategoryRefs(u, The(c)))
                                 \cup (IF \E x \in items : x.id = id /\ x.month_id = m
                                       THEN {} ELSE {<<"missing", "item">>})
                                 \cup (IF \E x \in items : x.id = id /\ x.month_id # m
                                       THEN {<<"elsewhere", "item">>} ELSE {}),
                      !.valid = ValidLabel(d, 200) /\ ValidAmount(a)]
             check == items_verify_month_not_closed(u, m)
         IN Set(s, IF ~ r.valid THEN Fail(r, "Validation")
                   ELSE IF check # "Ok" THEN Fail(r, check)
                   ELSE [r EXCEPT !.pc = "ui_existing"])
    /\ UNCHANGED <<tables, nextId, clock>>

\* update_item, lines 146-160: SELECT .. FROM items WHERE id = ? AND month_id = ?
ui_existing(s) ==
    /\ At(s, "ui_existing")
    /\ LET r == req[s]
           existing == { x \in items : x.id = r.id /\ x.month_id = r.month_id }
       IN Set(s, IF existing = {} THEN Fail(r, "NotFound")
                 ELSE [r EXCEPT !.existing = existing,
                          !.pc = IF r.category_id # None THEN "ui_category" ELSE "ui_update"])
    /\ UNCHANGED <<tables, nextId, clock>>

\* update_item, lines 161-167
ui_category(s) ==
    /\ At(s, "ui_category")
    /\ LET r == req[s]
           check == items_category_check(r.user, The(r.category_id))
       IN Set(s, IF check # "Ok" THEN Fail(r, check) ELSE [r EXCEPT !.pc = "ui_update"])
    /\ UNCHANGED <<tables, nextId, clock>>

\* update_item, lines 155-158 and 170-188: UPDATE items SET .. WHERE id = ?
ui_update(s) ==
    /\ At(s, "ui_update")
    /\ LET r == req[s]
           ex == The(r.existing)
           category_id == unwrap_or(r.category_id, ex.category_id)
           description == unwrap_or(r.label, ex.description)
           amount == unwrap_or(r.amount, ex.amount)
           updated == { IF x.id = r.id
                        THEN [x EXCEPT !.category_id = category_id,
                                       !.description = description, !.amount = amount]
                        ELSE x : x \in items }
       IN /\ items' = updated
          /\ Set(s, Finish(Wrote(r, "items", updated # items), "Ok", {[id |-> r.id, month_id |-> r.month_id,
                                      category_id |-> category_id,
                                      description |-> description,
                                      amount |-> amount]}))
    /\ UNCHANGED <<months, budget_categories, fixed_expenses, monthly_budgets,
                   income_entries, monthly_snapshots, nextId, clock>>

\* delete_item, line 211
di_verify(s, u) ==
    /\ Free(s)
    /\ \E m \in Ids("months"), id \in Ids("items") :
         LET r == [Begin("delete_item", u, m) EXCEPT !.id = id]
             check == items_verify_month_not_closed(u, m)
         IN Set(s, IF check # "Ok" THEN Fail(r, check) ELSE [r EXCEPT !.pc = "di_delete"])
    /\ UNCHANGED <<tables, nextId, clock>>

\* the DELETE without its AND month_id = ?
di_delete_any(s) ==
    /\ At(s, "di_delete")
    /\ LET r == req[s]
           left == { x \in items : x.id # r.id }
       IN /\ items' = left
          /\ Set(s, Finish(Wrote(r, "items", left # items), "Ok", {}))
    /\ UNCHANGED <<months, budget_categories, fixed_expenses, monthly_budgets,
                   income_entries, monthly_snapshots, nextId, clock>>

\* delete_item, lines 213-219: DELETE FROM items WHERE id = ? AND month_id = ?
di_delete(s) ==
    /\ At(s, "di_delete")
    /\ LET r == req[s]
           left == { x \in items : ~ (x.id = r.id /\ x.month_id = r.month_id) }
       IN /\ items' = left
          /\ Set(s, Finish(Wrote(r, "items", left # items), "Ok", {}))
    /\ UNCHANGED <<months, budget_categories, fixed_expenses, monthly_budgets,
                   income_entries, monthly_snapshots, nextId, clock>>

\* ------------------------------------------------------------------ income.rs
\* verify_month_access, lines 179-192
income_verify_month_access(u, m) ==
    IF \E x \in months : x.id = m /\ x.user_id = u THEN "Ok" ELSE "NotFound"

\* the guard with AND user_id = ? left out
income_verify_month_not_closed_any(u, m) ==
    LET month == { x \in months : x.id = m }
    IN IF month = {} THEN "NotFound"
       ELSE IF The(month).is_closed THEN "MonthClosed"
       ELSE "Ok"

\* verify_month_not_closed, lines 194-211
income_verify_month_not_closed(u, m) ==
    LET month == { x \in months : x.id = m /\ x.user_id = u }
    IN IF month = {} THEN "NotFound"
       ELSE IF The(month).is_closed THEN "MonthClosed"
       ELSE "Ok"

\* list_income, line 47
lin_verify(s, u) ==
    /\ Free(s)
    /\ \E m \in Ids("months") :
         LET r == Begin("list_income", u, m)
             check == income_verify_month_access(u, m)
         IN Set(s, IF check # "Ok" THEN Fail(r, check) ELSE [r EXCEPT !.pc = "lin_select"])
    /\ UNCHANGED <<tables, nextId, clock>>

\* list_income, lines 49-55
lin_select(s) ==
    /\ At(s, "lin_select")
    /\ Set(s, Finish(req[s], "Ok", { x \in income_entries : x.month_id = req[s].month_id }))
    /\ UNCHANGED <<tables, nextId, clock>>

\* create_income, lines 76-77
cin_verify(s, u, n) ==
    /\ Free(s)
    /\ nextId["income_entries"] + Running("create_income") <= n
    /\ \E m \in Ids("months"), l \in Descriptions, a \in Amounts :
         LET r == [Begin("create_income", u, m) EXCEPT
                      !.label = Some(l), !.amount = Some(a),
                      !.valid = ValidLabel(Some(l), 100) /\ ValidAmount(Some(a))]
             check == income_verify_month_not_closed(u, m)
         IN Set(s, IF ~ r.valid THEN Fail(r, "Validation")
                   ELSE IF check # "Ok" THEN Fail(r, check)
                   ELSE [r EXCEPT !.pc = "cin_insert"])
    /\ UNCHANGED <<tables, nextId, clock>>

\* create_income, lines 79-93: INSERT INTO income_entries .. RETURNING id
cin_insert(s) ==
    /\ At(s, "cin_insert")
    /\ LET r == req[s]
           row == [id |-> nextId["income_entries"], month_id |-> r.month_id,
                   label |-> The(r.label), amount |-> The(r.amount)]
       IN /\ income_entries' = income_entries \cup {row}
          /\ Bump("income_entries")
          /\ Set(s, Finish(Wrote(r, "income_entries", TRUE), "Ok", {row}))
    /\ UNCHANGED <<months, budget_categories, fixed_expenses, monthly_budgets, items,
                   monthly_snapshots, clock>>

\* update_income, lines 118-119
uin_verify(s, u) ==
    /\ Free(s)
    /\ \E m \in Ids("months"), id \in Ids("income_entries"),
          l \in {None} \cup { Some(x) : x \in Descriptions },
          a \in {None} \cup { Some(x) : x \in Amounts } :
         LET r == [Begin("update_income", u, m) EXCEPT
                      !.id = id, !.label = l, !.amount = a,
                      !.valid = ValidLabel(l, 100) /\ ValidAmount(a)]
             check == income_verify_month_not_closed(u, m)
         IN Set(s, IF ~ r.valid THEN Fail(r, "Validation")
                   ELSE IF check # "Ok" THEN Fail(r, check)
                   ELSE [r EXCEPT !.pc = "uin_existing"])
    /\ UNCHANGED <<tables, nextId, clock>>

\* update_income, lines 121-128: SELECT .. WHERE id = ? AND month_id = ?
uin_existing(s) ==
    /\ At(s, "uin_existing")
    /\ LET r == req[s]
           existing == { x \in income_entries : x.id = r.id /\ x.month_id = r.month_id }
       IN Set(s, IF existing = {} THEN Fail(r, "NotFound")
                 ELSE [r EXCEPT !.existing = existing, !.pc = "uin_update"])
    /\ UNCHANGED <<tables, nextId, clock>>

\* the UPDATE adding the payload's amount to the stored one
uin_update_add(s) ==
    /\ At(s, "uin_update")
    /\ LET r == req[s]
           ex == The(r.existing)
           label == unwrap_or(r.label, ex.label)
           amount == ex.amount + unwrap_or(r.amount, 0)
           updated == { IF x.id = r.id
                        THEN [x EXCEPT !.label = label, !.amount = amount]
                        ELSE x : x \in income_entries }
       IN /\ income_entries' = updated
          /\ Set(s, Finish(Wrote(r, "income_entries", updated # income_entries), "Ok",
                           {[id |-> r.id, month_id |-> r.month_id,
                                      label |-> label, amount |-> amount]}))
    /\ UNCHANGED <<months, budget_categories, fixed_expenses, monthly_budgets, items,
                   monthly_snapshots, nextId, clock>>

\* update_income, lines 130-145: UPDATE income_entries SET .. WHERE id = ?
uin_update(s) ==
    /\ At(s, "uin_update")
    /\ LET r == req[s]
           ex == The(r.existing)
           label == unwrap_or(r.label, ex.label)
           amount == unwrap_or(r.amount, ex.amount)
           updated == { IF x.id = r.id
                        THEN [x EXCEPT !.label = label, !.amount = amount]
                        ELSE x : x \in income_entries }
       IN /\ income_entries' = updated
          /\ Set(s, Finish(Wrote(r, "income_entries", updated # income_entries), "Ok",
                           {[id |-> r.id, month_id |-> r.month_id,
                                      label |-> label, amount |-> amount]}))
    /\ UNCHANGED <<months, budget_categories, fixed_expenses, monthly_budgets, items,
                   monthly_snapshots, nextId, clock>>

\* delete_income, line 168
din_verify(s, u) ==
    /\ Free(s)
    /\ \E m \in Ids("months"), id \in Ids("income_entries") :
         LET r == [Begin("delete_income", u, m) EXCEPT !.id = id]
             check == income_verify_month_not_closed(u, m)
         IN Set(s, IF check # "Ok" THEN Fail(r, check) ELSE [r EXCEPT !.pc = "din_delete"])
    /\ UNCHANGED <<tables, nextId, clock>>

\* delete_income, lines 170-176: DELETE FROM income_entries WHERE id = ? AND month_id = ?
din_delete(s) ==
    /\ At(s, "din_delete")
    /\ LET r == req[s]
           left == { x \in income_entries : ~ (x.id = r.id /\ x.month_id = r.month_id) }
       IN /\ income_entries' = left
          /\ Set(s, Finish(Wrote(r, "income_entries", left # income_entries), "Ok", {}))
    /\ UNCHANGED <<months, budget_categories, fixed_expenses, monthly_budgets, items,
                   monthly_snapshots, nextId, clock>>

\* ------------------------------------------------------------------ budget.rs
\* create_category, lines 79-87: payload.validate()?, INSERT INTO budget_categories
cc_insert(s, u, n) ==
    /\ Free(s)
    /\ nextId["budget_categories"] <= n
    /\ \E l \in Labels, a \in Amounts :
         LET r == [Begin("create_category", u, 0) EXCEPT
                      !.label = Some(l), !.amount = Some(a),
                      !.valid = ValidLabel(Some(l), 100) /\ ValidAmount(Some(a))]
             id == nextId["budget_categories"]
         IN IF ~ r.valid
            THEN /\ Set(s, Fail(r, "Validation"))
                 /\ UNCHANGED <<budget_categories, nextId>>
            ELSE /\ budget_categories' = budget_categories \cup
                       {[id |-> id, user_id |-> u, label |-> l, default_amount |-> a]}
                 /\ Bump("budget_categories")
                 /\ Set(s, [Wrote(r, "budget_categories", TRUE) EXCEPT
                               !.pc = "cc_months", !.id = id])
    /\ UNCHANGED <<months, fixed_expenses, monthly_budgets, income_entries, items,
                   monthly_snapshots, clock>>

\* the SELECT without its AND is_closed = 0
OpenMonths_all(u) == { x \in months : x.user_id = u }

\* create_category, lines 89-93: SELECT id FROM months WHERE user_id = ? AND is_closed = 0
OpenMonths(u) == { x \in months : x.user_id = u /\ ~ x.is_closed }

\* a create_category that looks for the open months before it stores the
\* template is modelled by its effect: the months it has read are none
cc_months_none(s) ==
    /\ At(s, "cc_months")
    /\ LET r == req[s]
           category == [id |-> r.id, user_id |-> r.user, label |-> The(r.label),
                        default_amount |-> The(r.amount)]
       IN Set(s, Finish(r, "Ok", {category}))
    /\ UNCHANGED <<tables, nextId, clock>>

cc_months(s) ==
    /\ At(s, "cc_months")
    /\ LET r == req[s]
           open_months == OpenMonths(r.user)
           category == [id |-> r.id, user_id |-> r.user, label |-> The(r.label),
                        default_amount |-> The(r.amount)]
       IN Set(s, IF open_months = {} THEN Finish(r, "Ok", {category})
                 ELSE [r EXCEPT !.rows = open_months, !.pc = "cc_propagate"])
    /\ UNCHANGED <<tables, nextId, clock>>

\* create_category, lines 95-112: one turn of the loop, INSERT OR IGNORE .. .ok()
cc_propagate(s) ==
    /\ At(s, "cc_propagate")
    /\ LET r == req[s]
           m == MinId(r.rows)
           rest == r.rows \ {m}
           category == [id |-> r.id, user_id |-> r.user, label |-> The(r.label),
                        default_amount |-> The(r.amount)]
       IN /\ IF BudgetInsertable(m.id, r.id)
             THEN /\ monthly_budgets' = monthly_budgets \cup
                        {[id |-> nextId["monthly_budgets"], month_id |-> m.id,
                          category_id |-> r.id, allocated_amount |-> The(r.amount)]}
                  /\ Bump("monthly_budgets")
             ELSE UNCHANGED <<monthly_budgets, nextId>>
          /\ LET w == Wrote(r, "monthly_budgets", BudgetInsertable(m.id, r.id))
             IN Set(s, IF rest = {} THEN Finish(w, "Ok", {category})
                       ELSE [w EXCEPT !.rows = rest])
    /\ UNCHANGED <<months, budget_categories, fixed_expenses, income_entries, items,
                   monthly_snapshots, clock>>

\* the SELECT without its AND user_id = ?
uc_existing_any(s, u) ==
    /\ Free(s)
    /\ \E c \in Ids("budget_categories"),
          l \in {None} \cup { Some(x) : x \in Labels },
          a \in {None} \cup { Some(x) : x \in Amounts } :
         LET r == [Begin("update_category", u, 0) EXCEPT
                      !.id = c, !.label = l, !.amount = a, !.refs = CategoryRefs(u, c),
                      !.valid = ValidLabel(l, 100) /\ ValidAmount(a)]
             existing == { x \in budget_categories : x.id = c }
         IN Set(s, IF ~ r.valid THEN Fail(r, "Validation")
                   ELSE IF existing = {} THEN Fail(r, "NotFound")
                   ELSE [r EXCEPT !.existing = existing, !.pc = "uc_update"])
    /\ UNCHANGED <<tables, nextId, clock>>

\* update_category, lines 134-142: payload.validate()?, SELECT .. WHERE id = ? AND user_id = ?
uc_existing(s, u) ==
    /\ Free(s)
    /\ \E c \in Ids("budget_categories"),
          l \in {None} \cup { Some(x) : x \in Labels },
          a \in {None} \cup { Some(x) : x \in Amounts } :
         LET r == [Begin("update_category", u, 0) EXCEPT
                      !.id = c, !.label = l, !.amount = a, !.refs = CategoryRefs(u, c),
                      !.valid = ValidLabel(l, 100) /\ ValidAmount(a)]
             existing == { x \in budget_categories : x.id = c /\ x.user_id = u }
         IN Set(s, IF ~ r.valid THEN Fail(r, "Validation")
                   ELSE IF existing = {} THEN Fail(r, "NotFound")
                   ELSE [r EXCEPT !.existing = existing, !.pc = "uc_update"])
    /\ UNCHANGED <<tables, nextId, clock>>

\* an update that carries the new default amount into the allocations of the category
uc_update_propagate(s) ==
    /\ At(s, "uc_update")
    /\ LET r == req[s]
           ex == The(r.existing)
           label == unwrap_or(r.label, ex.label)
           default_amount == unwrap_or(r.amount, ex.default_amount)
           updated == { IF x.id = r.id
                        THEN [x EXCEPT !.label = label, !.default_amount = default_amount]
                        ELSE x : x \in budget_categories }
       IN /\ budget_categories' = updated
          /\ monthly_budgets' = { IF b.category_id = r.id
                                  THEN [b EXCEPT !.allocated_amount = default_amount]
                                  ELSE b : b \in monthly_budgets }
          /\ Set(s, Finish(Wrote(r, "budget_categories", updated # budget_categories), "Ok",
                           {[id |-> r.id, user_id |-> r.user, label |-> label,
                             default_amount |-> default_amount]}))
    /\ UNCHANGED <<months, fixed_expenses, income_entries, items,
                   monthly_snapshots, nextId, clock>>

\* update_category, lines 144-159: unwrap_or, UPDATE budget_categories SET .. WHERE id = ?
uc_update(s) ==
    /\ At(s, "uc_update")
    /\ LET r == req[s]
           ex == The(r.existing)
           label == unwrap_or(r.label, ex.label)
           default_amount == unwrap_or(r.amount, ex.default_amount)
           updated == { IF x.id = r.id
                        THEN [x EXCEPT !.label = label, !.default_amount = default_amount]
                        ELSE x : x \in budget_categories }
       IN /\ budget_categories' = updated
          /\ Set(s, Finish(Wrote(r, "budget_categories", updated # budget_categories), "Ok",
                           {[id |-> r.id, user_id |-> r.user, label |-> label,
                             default_amount |-> default_amount]}))
    /\ UNCHANGED <<months, fixed_expenses, monthly_budgets, income_entries, items,
                   monthly_snapshots, nextId, clock>>

\* the DELETE taking the rows that reference the category with it
dc_delete_cascade(s, u) ==
    /\ Free(s)
    /\ \E c \in Ids("budget_categories") :
         LET gone == { x \in budget_categories : x.id = c /\ x.user_id = u }
             r == [Begin("delete_category", u, 0) EXCEPT !.id = c, !.refs = CategoryRefs(u, c)]
         IN /\ budget_categories' = budget_categories \ gone
            /\ monthly_budgets' = IF gone = {} THEN monthly_budgets
                                  ELSE { b \in monthly_budgets : b.category_id # c }
            /\ items' = IF gone = {} THEN items ELSE { i \in items : i.category_id # c }
            /\ Set(s, Finish(Wrote(r, "budget_categories", gone # {}), "Ok", {}))
    /\ UNCHANGED <<months, fixed_expenses, income_entries, monthly_snapshots, nextId, clock>>

\* delete_category, lines 175-181: DELETE FROM budget_categories WHERE id = ? AND user_id = ?
dc_delete(s, u) ==
    /\ Free(s)
    /\ \E c \in Ids("budget_categories") :
         LET left == { x \in budget_categories : ~ (x.id = c /\ x.user_id = u) }
             r == [Begin("delete_category", u, 0) EXCEPT !.id = c, !.refs = CategoryRefs(u, c)]
         IN /\ budget_categories' = left
            /\ Set(s, Finish(Wrote(r, "budget_categories", left # budget_categories),
                             "Ok", {}))
    /\ UNCHANGED <<months, fixed_expenses, monthly_budgets, income_entries, items,
                   monthly_snapshots, nextId, clock>>

\* list_monthly_budgets, lines 201-206
lmb_month(s, u) ==
    /\ Free(s)
    /\ \E m \in Ids("months") :
         LET r == Begin("list_monthly_budgets", u, m)
         IN Set(s, IF ~ \E x \in months : x.id = m /\ x.user_id = u
                   THEN Fail(r, "NotFound") ELSE [r EXCEPT !.pc = "lmb_select"])
    /\ UNCHANGED <<tables, nextId, clock>>

\* list_monthly_budgets, lines 208-215
lmb_select(s) ==
    /\ At(s, "lmb_select")
    /\ Set(s, Finish(req[s], "Ok", { x \in monthly_budgets : x.month_id = req[s].month_id }))
    /\ UNCHANGED <<tables, nextId, clock>>

\* update_monthly_budget, lines 241-251: the month of the caller, and its is_closed flag
budget_month_check(u, m) ==
    LET month == { x \in months : x.id = m /\ x.user_id = u }
    IN IF month = {} THEN "NotFound"
       ELSE IF The(month).is_closed THEN "MonthClosed"
       ELSE "Ok"

\* update_monthly_budget, lines 240-251
umb_month(s, u) ==
    /\ Free(s)
    /\ \E m \in Ids("months"), id \in Ids("monthly_budgets"), a \in Amounts :
         LET r == [Begin("update_monthly_budget", u, m) EXCEPT
                      !.id = id, !.amount = Some(a), !.valid = ValidAmount(Some(a)),
                      !.refs = @ \cup AllocationRefs(m, id)]
             check == budget_month_check(u, m)
         IN Set(s, IF ~ r.valid THEN Fail(r, "Validation")
                   ELSE IF check # "Ok" THEN Fail(r, check)
                   ELSE [r EXCEPT !.pc = "umb_existing"])
    /\ UNCHANGED <<tables, nextId, clock>>

\* the SELECT without its AND month_id = ?
umb_existing_any(s) ==
    /\ At(s, "umb_existing")
    /\ LET r == req[s]
           existing == { x \in monthly_budgets : x.id = r.id }
       IN Set(s, IF existing = {} THEN Fail(r, "NotFound")
                 ELSE [r EXCEPT !.existing = existing, !.pc = "umb_update"])
    /\ UNCHANGED <<tables, nextId, clock>>

\* update_monthly_budget, lines 253-260: SELECT .. WHERE id = ? AND month_id = ?
umb_existing(s) ==
    /\ At(s, "umb_existing")
    /\ LET r == req[s]
           existing == { x \in monthly_budgets : x.id = r.id /\ x.month_id = r.month_id }
       IN Set(s, IF existing = {} THEN Fail(r, "NotFound")
                 ELSE [r EXCEPT !.existing = existing, !.pc = "umb_update"])
    /\ UNCHANGED <<tables, nextId, clock>>

\* update_monthly_budget, lines 262-273: UPDATE monthly_budgets SET .. WHERE id = ?
umb_update(s) ==
    /\ At(s, "umb_update")
    /\ LET r == req[s]
           updated == { IF x.id = r.id
                        THEN [x EXCEPT !.allocated_amount = The(r.amount)]
                        ELSE x : x \in monthly_budgets }
       IN /\ monthly_budgets' = updated
          /\ Set(s, Finish(Wrote(r, "monthly_budgets", updated # monthly_budgets), "Ok",
                           {[id |-> r.id, month_id |-> r.month_id,
                                      category_id |-> The(r.existing).category_id,
                                      allocated_amount |-> The(r.amount)]}))
    /\ UNCHANGED <<months, budget_categories, fixed_expenses, income_entries, items,
                   monthly_snapshots, nextId, clock>>

\* ------------------------------------------------------------------ fixed_expenses.rs
\* create_fixed_expense, lines 62-82: no validation, INSERT INTO fixed_expenses
cfe_insert(s, u, n) ==
    /\ Free(s)
    /\ nextId["fixed_expenses"] <= n
    /\ \E l \in Descriptions, a \in Amounts :
         LET row == [id |-> nextId["fixed_expenses"], user_id |-> u, label |-> l, amount |-> a]
             r == [Begin("create_fixed_expense", u, 0) EXCEPT !.label = Some(l), !.amount = Some(a)]
         IN /\ fixed_expenses' = fixed_expenses \cup {row}
            /\ Bump("fixed_expenses")
            /\ Set(s, Finish(Wrote(r, "fixed_expenses", TRUE), "Ok", {row}))
    /\ UNCHANGED <<months, budget_categories, monthly_budgets, income_entries, items,
                   monthly_snapshots, clock>>

\* update_fixed_expense, lines 104-111: no validation, SELECT .. WHERE id = ? AND user_id = ?
ufe_existing(s, u) ==
    /\ Free(s)
    /\ \E e \in Ids("fixed_expenses"),
          l \in {None} \cup { Some(x) : x \in Descriptions },
          a \in {None} \cup { Some(x) : x \in Amounts } :
         LET r == [Begin("update_fixed_expense", u, 0) EXCEPT
                      !.id = e, !.label = l, !.amount = a, !.refs = ExpenseRefs(u, e)]
             existing == { x \in fixed_expenses : x.id = e /\ x.user_id = u }
         IN Set(s, IF existing = {} THEN Fail(r, "NotFound")
                   ELSE [r EXCEPT !.existing = existing, !.pc = "ufe_update"])
    /\ UNCHANGED <<tables, nextId, clock>>

\* update_fixed_expense, lines 113-128: unwrap_or, UPDATE fixed_expenses SET .. WHERE id = ?
ufe_update(s) ==
    /\ At(s, "ufe_update")
    /\ LET r == req[s]
           ex == The(r.existing)
           label == unwrap_or(r.label, ex.label)
           amount == unwrap_or(r.amount, ex.amount)
           updated == { IF x.id = r.id THEN [x EXCEPT !.label = label, !.amount = amount]
                        ELSE x : x \in fixed_expenses }
       IN /\ fixed_expenses' = updated
          /\ Set(s, Finish(Wrote(r, "fixed_expenses", updated # fixed_expenses), "Ok",
                           {[id |-> r.id, user_id |-> r.user, label |-> label,
                             amount |-> amount]}))
    /\ UNCHANGED <<months, budget_categories, monthly_budgets, income_entries, items,
                   monthly_snapshots, nextId, clock>>

\* delete_fixed_expense, lines 140-152: DELETE FROM fixed_expenses WHERE id = ? AND user_id = ?
dfe_delete(s, u) ==
    /\ Free(s)
    /\ \E e \in Ids("fixed_expenses") :
         LET left == { x \in fixed_expenses : ~ (x.id = e /\ x.user_id = u) }
             r == [Begin("delete_fixed_expense", u, 0) EXCEPT !.id = e, !.refs = ExpenseRefs(u, e)]
         IN /\ fixed_expenses' = left
            /\ Set(s, Finish(Wrote(r, "fixed_expenses", left # fixed_expenses), "Ok", {}))
    /\ UNCHANGED <<months, budget_categories, monthly_budgets, income_entries, items,
                   monthly_snapshots, nextId, clock>>

\* ------------------------------------------------------------------ specification
\* the client takes the response
Return(s) ==
    /\ req[s].pc = "done"
    /\ req' = [t \in DOMAIN req |-> IF t \in {0, s} THEN Idle ELSE req[t]]
    /\ UNCHANGED <<tables, nextId, clock>>

\* what the client sent: the handler, the caller, the path and the payload.  The
\* id of create_category and the month_id of get_or_create_current_month are
\* locals of the handler, not arguments.
ArgsOf(r) ==
    [Idle EXCEPT !.op = r.op, !.user = r.user,
                 !.month_id = IF r.op = "get_or_create_current_month" THEN 0 ELSE r.month_id,
                 !.id = IF r.op = "create_category" THEN 0 ELSE r.id,
                 !.category_id = r.category_id, !.label = r.label, !.amount = r.amount]

\* the client takes the response and keeps the request, to send it once more
\* (a request that was refused, and so performed nothing, is not sent again)
Retry(s) ==
    /\ req[s].pc = "done" /\ req[s].result = "Ok"
    /\ req[0].op = "none"
    /\ req' = [req EXCEPT ![s] = Idle,
                          ![0] = [ArgsOf(req[s]) EXCEPT !.result = req[s].result,
                                                        !.wrote = req[s].wrote]]
    /\ UNCHANGED <<tables, nextId, clock>>

\* the request a client sends after Retry is the one it kept
Resent(s) ==
    req[0].op # "none" => (req'[s].op = "none" \/ ArgsOf(req'[s]) = ArgsOf(req[0]))

\* the handlers, each from its first statement to its last
get_month_summary(s) ==
    sum_month(s) \/ sum_income(s) \/ sum_fixed(s) \/ sum_budgets(s) \/ sum_items(s)
get_or_create_current_month(s, u) ==
    goc_select(s, u) \/ goc_insert(s) \/ goc_categories(s) \/ goc_copy(s)
get_month(s, u) == gm_select(s, u)
close_month(s, u) ==
    \/ close_select(s, u) \/ close_render(s) \/ close_snapshot(s) \/ close_update(s)
    \/ close_reselect(s)
get_month_pdf(s, u) == pdf_month(s, u) \/ pdf_snapshot(s)
list_items(s, u) == li_verify(s, u) \/ li_select(s)
create_item(s, u, n) == ci_verify(s, u, n) \/ ci_category(s) \/ ci_insert(s)
update_item(s, u) == ui_verify(s, u) \/ ui_existing(s) \/ ui_category(s) \/ ui_update(s)
delete_item(s, u) == di_verify(s, u) \/ di_delete(s)
list_income(s, u) == lin_verify(s, u) \/ lin_select(s)
create_income(s, u, n) == cin_verify(s, u, n) \/ cin_insert(s)
update_income(s, u) == uin_verify(s, u) \/ uin_existing(s) \/ uin_update(s)
delete_income(s, u) == din_verify(s, u) \/ din_delete(s)
create_category(s, u, n) == cc_insert(s, u, n) \/ cc_months(s) \/ cc_propagate(s)
update_category(s, u) == uc_existing(s, u) \/ uc_update(s)
delete_category(s, u) == dc_delete(s, u)
list_monthly_budgets(s, u) == lmb_month(s, u) \/ lmb_select(s)
update_monthly_budget(s, u) == umb_month(s, u) \/ umb_existing(s) \/ umb_update(s)
create_fixed_expense(s, u, n) == cfe_insert(s, u, n)
update_fixed_expense(s, u) == ufe_existing(s, u) \/ ufe_update(s)
delete_fixed_expense(s, u) == dfe_delete(s, u)

\* the mutation guard: the month's children against a month that closes;
\* one request at a time, each running from its first statement to its response
GuardHandlers(s, u) ==
    \/ get_or_create_current_month(s, u) \/ get_month(s, u) \/ get_month_summary(s)
    \/ close_month(s, u)
    \/ create_category(s, u, FewRows)
    \/ list_items(s, u) \/ create_item(s, u, FewRows) \/ update_item(s, u)
    \/ delete_item(s, u)
    \/ list_income(s, u) \/ create_income(s, u, FewRows) \/ update_income(s, u)
    \/ delete_income(s, u)
    \/ list_monthly_budgets(s, u) \/ update_monthly_budget(s, u)
    \/ Return(s)
NextGuard == \E u \in {1} : GuardHandlers(1, u)
SpecGuard == Init /\ [][NextGuard]_vars

\* the aggregation: one request at a time
AggHandlers(s, u) ==
    \/ get_or_create_current_month(s, u) \/ get_month(s, u) \/ get_month_summary(s)
    \/ create_category(s, u, MaxCategories) \/ delete_category(s, u)
    \/ create_item(s, u, MaxItems) \/ update_item(s, u) \/ delete_item(s, u)
    \/ create_income(s, u, MaxIncome) \/ delete_income(s, u)
    \/ create_fixed_expense(s, u, MaxFixed) \/ delete_fixed_expense(s, u)
    \/ Return(s)
NextAgg == \E u \in {1} : AggHandlers(1, u)
SpecAgg == Init /\ [][NextAgg]_vars

\* month creation and template propagation over the calendar periods, two users;
\* one request at a time
PropHandlers(s, u) ==
    \/ get_or_create_current_month(s, u) \/ get_month_summary(s)
    \/ create_category(s, u, MaxCategories)
    \/ Return(s)
NextProp == Tick \/ close_month(1, 1) \/ \E u \in Users : PropHandlers(1, u)
SpecProp == Init /\ [][NextProp]_vars

\* ownership: user 1 builds up and closes a month; user 2, who has templates of
\* its own but no month, calls every handler that names a month, a category or
\* a fixed expense; one request at a time
OwnerHandlers(s, u) ==
    \/ get_or_create_current_month(s, u) \/ get_month_summary(s)
    \/ close_month(s, u)
    \/ create_category(s, u, FewRows) \/ delete_category(s, u)
    \/ create_item(s, u, FewRows) \/ update_item(s, u)
    \/ create_income(s, u, FewRows)
    \/ create_fixed_expense(s, u, FewRows)
    \/ get_month_pdf(s, u)
    \/ list_items(s, u) \/ delete_item(s, u)
    \/ list_income(s, u) \/ update_income(s, u) \/ delete_income(s, u)
    \/ list_monthly_budgets(s, u) \/ update_monthly_budget(s, u)
OtherHandlers(s, u) ==
    \/ get_month(s, u) \/ close_month(s, u) \/ get_month_pdf(s, u)
    \/ list_items(s, u) \/ create_item(s, u, FewRows) \/ update_item(s, u)
    \/ delete_item(s, u)
    \/ list_income(s, u) \/ create_income(s, u, FewRows) \/ update_income(s, u)
    \/ delete_income(s, u)
    \/ list_monthly_budgets(s, u) \/ update_monthly_budget(s, u)
    \/ create_category(s, u, FewRows) \/ update_category(s, u) \/ delete_category(s, u)
    \/ create_fixed_expense(s, u, FewRows) \/ update_fixed_expense(s, u)
    \/ delete_fixed_expense(s, u)
NextIso == OwnerHandlers(1, 1) \/ OtherHandlers(1, 2) \/ Return(1)
SpecIso == Init /\ [][NextIso]_vars

\* the category check of the items: user 1 has a month, a template and an item,
\* user 2 a template of its own; one request at a time
NextCat ==
    \/ get_or_create_current_month(1, 1) \/ get_month_summary(1)
    \/ close_month(1, 1)
    \/ create_category(1, 1, FewRows) \/ create_category(1, 2, MaxCategories)
    \/ delete_category(1, 1)
    \/ create_item(1, 1, MaxItems) \/ update_item(1, 1)
    \/ Return(1)
SpecCat == Init /\ [][NextCat]_vars

\* the fixed expenses of two users against the summaries of an open and of a
\* closed month of user 1; one request at a time
FixedHandlers(s, u) ==
    \/ create_fixed_expense(s, u, MaxExpenses) \/ update_fixed_expense(s, u)
    \/ delete_fixed_expense(s, u)
NextFixed ==
    \/ get_or_create_current_month(1, 1) \/ get_month(1, 1) \/ get_month_summary(1)
    \/ close_month(1, 1)
    \/ create_category(1, 1, FewRows)
    \/ \E u \in Users : FixedHandlers(1, u)
    \/ Return(1)
SpecFixed == Init /\ [][NextFixed]_vars

\* the close of a month against concurrent requests, interleaved at their
\* storage statements
CloseHandlers(s, u) ==
    \/ get_or_create_current_month(s, u) \/ get_month_summary(s)
    \/ close_month(s, u) \/ get_month_pdf(s, u)
    \/ create_category(s, u, FewRows)
    \/ create_item(s, u, FewRows)
    \/ update_monthly_budget(s, u)
    \/ Return(s)
Next == \E s \in Slots, u \in {1} : CloseHandlers(s, u)
Spec == Init /\ [][Next]_vars

\* a creation sent for the second time is let through the bound on the rows;
\* the client stops at the second row
Rows(op) == IF req[0].op = op THEN FewRows + 1 ELSE FewRows
NoSecondRow == \A t \in TableNames : nextId[t] <= FewRows + 1
\* the client sends a request of its choice, or the one it kept
Sending(op) == NoSecondRow /\ req[0].op \in {"none", op}

\* every request sent once, or twice in a row with the same arguments; one
\* caller, one request at a time
NextRetry ==
    \/ Sending("get_or_create_current_month") /\ get_or_create_current_month(1, 1)
          /\ Resent(1)
    \/ Sending("get_month") /\ get_month(1, 1) /\ Resent(1)
    \/ NoSecondRow /\ get_month_summary(1)
    \/ Sending("create_category") /\ create_category(1, 1, Rows("create_category"))
          /\ Resent(1)
    \/ Sending("update_category") /\ update_category(1, 1) /\ Resent(1)
    \/ Sending("delete_category") /\ delete_category(1, 1) /\ Resent(1)
    \/ Sending("create_item") /\ create_item(1, 1, Rows("create_item")) /\ Resent(1)
    \/ Sending("update_item") /\ update_item(1, 1) /\ Resent(1)
    \/ Sending("delete_item") /\ delete_item(1, 1) /\ Resent(1)
    \/ Sending("create_income") /\ create_income(1, 1, Rows("create_income")) /\ Resent(1)
    \/ Sending("update_income") /\ update_income(1, 1) /\ Resent(1)
    \/ Sending("delete_income") /\ delete_income(1, 1) /\ Resent(1)
    \/ Sending("update_monthly_budget") /\ update_monthly_budget(1, 1) /\ Resent(1)
    \/ Sending("create_fixed_expense")
          /\ create_fixed_expense(1, 1, Rows("create_fixed_expense")) /\ Resent(1)
    \/ Sending("update_fixed_expense") /\ update_fixed_expense(1, 1) /\ Resent(1)
    \/ Sending("delete_fixed_expense") /\ delete_fixed_expense(1, 1) /\ Resent(1)
    \/ NoSecondRow /\ Return(1)
    \/ NoSecondRow /\ Retry(1)
SpecRetry == InitRetry /\ [][NextRetry]_vars

\* the creation of a month against the creation of categories, two requests of
\* one user interleaved at their storage statements
SpecRace ==
    Init /\ [][
        \/ Tick
        \/ \E s \in Slots :
             \/ get_or_create_current_month(s, 1) \/ get_month_summary(s)
             \/ create_category(s, 1, MaxCategories)
             \/ Return(s)
      ]_vars

\* the life of one month of one user: its category, its creation, its items,
\* its summary and its close; one request at a time
SpecScenario ==
    Init /\ [][
        \/ get_or_create_current_month(1, 1) \/ get_month(1, 1) \/ get_month_summary(1)
        \/ close_month(1, 1)
        \/ create_category(1, 1, MaxCategories)
        \/ create_item(1, 1, MaxItems)
        \/ Return(1)
      ]_vars

\* the reads of one user against a store that the creations, the close of a
\* month and the calendar fill; one request at a time
SpecRead ==
    Init /\ [][
        \/ Tick
        \/ get_or_create_current_month(1, 1) \/ get_month(1, 1) \/ get_month_summary(1)
        \/ lm_select(1, 1) \/ get_month_pdf(1, 1)
        \/ list_items(1, 1) \/ list_income(1, 1) \/ list_monthly_budgets(1, 1)
        \/ close_month(1, 1)
        \/ create_category(1, 1, FewRows) \/ create_item(1, 1, FewRows)
        \/ create_income(1, 1, FewRows)
        \/ Return(1)
      ]_vars

\* the template of a category against its allocations in an open and in a
\* closed month; the owner and another user edit it, one request at a time
SpecTemplate ==
    Init /\ [][
        \/ Tick
        \/ get_or_create_current_month(1, 1) \/ get_month_summary(1)
        \/ close_month(1, 1)
        \/ create_category(1, 1, FewRows)
        \/ \E u \in Users : update_category(1, u)
        \/ Return(1)
      ]_vars

\* the items and the income entries of the months of two calendar periods,
\* the earlier of which may be closed; one request at a time
SpecScope ==
    Init /\ [][
        \/ Tick
        \/ get_or_create_current_month(1, 1) \/ get_month_summary(1)
        \/ close_month(1, 1)
        \/ create_category(1, 1, FewRows)
        \/ create_item(1, 1, FewRows) \/ update_item(1, 1) \/ delete_item(1, 1)
        \/ create_income(1, 1, FewRows) \/ update_income(1, 1) \/ delete_income(1, 1)
        \/ Return(1)
      ]_vars

\* a close_month (slot 1) against the item, income, budget and category
\* requests of the same user (slot 2), interleaved at their storage
\* statements.  The runtime schedules every step of the close_month that can be
\* taken, and every response is delivered; nothing is assumed of the others.
SpecLive ==
    /\ Init
    /\ [][
        \/ get_or_create_current_month(1, 1) \/ get_month_summary(1)
        \/ close_month(1, 1)
        \/ create_category(2, 1, FewRows)
        \/ create_item(2, 1, FewRows) \/ create_income(2, 1, FewRows)
        \/ update_monthly_budget(2, 1)
        \/ \E s \in Slots : Return(s)
      ]_vars
    /\ SF_vars(req[1].op = "close_month" /\ (get_month_summary(1) \/ close_month(1, 1)))
    /\ \A s \in Slots : WF_vars(Return(s))

\* the allocations of the months of two calendar periods; one request at a time
SpecBudget ==
    Init /\ [][
        \/ Tick
        \/ get_or_create_current_month(1, 1) \/ get_month_summary(1)
        \/ close_month(1, 1)
        \/ create_category(1, 1, MaxCategories)
        \/ list_monthly_budgets(1, 1) \/ update_monthly_budget(1, 1)
        \/ Return(1)
      ]_vars

\* the references between the rows of two users: both users keep templates,
\* user 1 opens the month; its item requests (slot 1) and the deletion of its
\* templates (slot 2) interleave with these at their storage statements
SpecCross ==
    Init /\ [][
        \/ \E s \in Slots :
              \/ get_or_create_current_month(s, 1) \/ get_month_summary(s)
              \/ \E u \in Users : create_category(s, u, MaxCategories)
              \/ Return(s)
        \/ create_item(1, 1, FewRows) \/ update_item(1, 1)
        \/ delete_category(2, 1)
      ]_vars

\* ------------------------------------------------------------------ properties
ChildMutations == {"create_item", "update_item", "delete_item", "create_income",
                   "update_income", "delete_income", "update_monthly_budget"}
MonthReads == {"get_month", "list_items", "list_income", "list_monthly_budgets"}
Summaries == {"get_month", "get_or_create_current_month"}

Done(s, ops) == req[s].pc = "done" /\ req[s].op \in ops
IsClosed(m) == \E x \in months : x.id = m /\ x.is_closed
IsOpen(m) == \E x \in months : x.id = m /\ ~ x.is_closed
SnapshotsOf(m) == { x \in monthly_snapshots : x.month_id = m }
ItemsOf(m) == { x \in items : x.month_id = m }
IncomeOf(m) == { x \in income_entries : x.month_id = m }
BudgetsOf(m) == { x \in monthly_budgets : x.month_id = m }

\* C1 as stated: every create, update or delete of an income entry or an item, and
\* every update of an allocation, that its owner attempts on a closed month is
\* answered with the closed-month error.
C1_ClosedMonthError ==
    \A s \in Slots :
        (Done(s, ChildMutations) /\ req[s].closed0) => req[s].result = "MonthClosed"

\* C1 as amended: on a closed month such an attempt is answered with the
\* closed-month error when its payload passes validation and with the validation
\* error when it does not, and changes no stored row; the reads of the month
\* (get_month, list_items, list_income, list_monthly_budgets) succeed and change
\* no stored row either.
C1_ClosedImmutability ==
    \A s \in Slots :
        /\ (req[s].closed0 /\ req[s].op \in ChildMutations) =>
              /\ req[s].pc = "done"
              /\ req[s].result = IF req[s].valid THEN "MonthClosed" ELSE "Validation"
              /\ req[s].wrote = {}
        /\ (req[s].closed0 /\ req[s].op \in MonthReads) =>
              /\ req[s].pc = "done" => req[s].result = "Ok"
              /\ req[s].wrote = {}

\* C1 witness: a well-formed create_item on a closed month was refused, and a
\* get_month of a closed month was answered
C1_Witness ==
    /\ req[1].pc = "done" /\ req[1].closed0
    /\ \/ req[1].op = "create_item" /\ req[1].valid /\ req[1].result = "MonthClosed"
       \/ req[1].op = "update_monthly_budget" /\ req[1].result = "MonthClosed"

\* C4: a close_month of a month that is already closed is answered with the
\* already-closed error and stores nothing, in particular no second snapshot; a
\* close_month answered Ok leaves the month closed with exactly one snapshot.
C4_CloseOnce ==
    \A s \in Slots :
        /\ (Done(s, {"close_month"}) /\ req[s].closed0) =>
              /\ req[s].result = "AlreadyClosed"
              /\ req[s].wrote = {}
        /\ (Done(s, {"close_month"}) /\ req[s].result = "Ok") =>
              /\ req[s].wrote = {"monthly_snapshots", "months"}
              /\ IsClosed(req[s].month_id)
              /\ Cardinality(SnapshotsOf(req[s].month_id)) = 1

\* C4 witness: the second close of a month was refused, its one snapshot is there
C4_Witness ==
    \E s \in Slots :
        /\ Done(s, {"close_month"}) /\ req[s].closed0
        /\ req[s].result = "AlreadyClosed"
        /\ Cardinality(SnapshotsOf(req[s].month_id)) = 1

\* C2 as stated: under any interleaving, once a month's is_closed flag is true no
\* item or income entry of the month is inserted, modified or deleted, and no
\* allocation row of the month is modified or deleted.
C2_ClosedChildrenFrozen ==
    [][\A x \in months :
         x.is_closed =>
            /\ { i \in items' : i.month_id = x.id } = ItemsOf(x.id)
            /\ { i \in income_entries' : i.month_id = x.id } = IncomeOf(x.id)
            /\ BudgetsOf(x.id) \subseteq monthly_budgets']_vars

\* C3: a month is created open, a closed month stays closed, and the only step
\* that changes an is_closed flag is the UPDATE of a close_month of that month.
C3_OneWay ==
    [][/\ \A y \in months' :
            (~ \E x \in months : x.id = y.id) => ~ y.is_closed
       /\ \A x \in months :
            /\ x.is_closed => IsClosed(x.id)'
            /\ (~ x.is_closed /\ IsClosed(x.id)') =>
                  \E s \in Slots :
                      /\ req[s].op = "close_month" /\ req[s].pc = "close_update"
                      /\ req[s].month_id = x.id /\ req[s].user = x.user_id
                      /\ req'[s].pc = "close_reselect"]_vars

\* C3 witness: a month is closed and a later request against it has been answered
C3_Witness ==
    \E s \in Slots : req[s].pc = "done" /\ req[s].closed0 /\ IsClosed(req[s].month_id)

\* C5: every month has at most one snapshot row, and a stored snapshot row is
\* never removed, replaced or altered, whatever close_month requests interleave
\* or are repeated after a failure.
C5_OneSnapshot ==
    /\ [](\A x \in months : Cardinality(SnapshotsOf(x.id)) <= 1)
    /\ [][monthly_snapshots \subseteq monthly_snapshots']_vars

\* C5 witness: a month has its snapshot while a second close_month of the same
\* month, begun while it was open, is about to insert its own
C5_Witness ==
    \E s \in Slots :
        /\ req[s].op = "close_month" /\ req[s].pc = "close_snapshot"
        /\ SnapshotsOf(req[s].month_id) # {}

\* C6: a closed month has a persisted snapshot; a close_month marks its month
\* closed only after it has persisted its report, and one that failed at the
\* renderer or at the snapshot INSERT has not touched the month.
C6_NoPartialClose ==
    /\ \A x \in months : x.is_closed => SnapshotsOf(x.id) # {}
    /\ \A s \in Slots :
          req[s].op = "close_month" =>
             /\ "months" \in req[s].wrote =>
                   "monthly_snapshots" \in req[s].wrote /\ SnapshotsOf(req[s].month_id) # {}
             /\ (req[s].pc = "done" /\ req[s].result = "Internal") => req[s].wrote = {}
             /\ (req[s].pc = "done" /\ req[s].result = "Database") =>
                   "months" \notin req[s].wrote

\* C6 witness: a close_month failed at the renderer or at the snapshot INSERT and
\* left its month open and without a snapshot
C6_Witness ==
    \E s \in Slots :
        /\ Done(s, {"close_month"}) /\ req[s].result \in {"Internal", "Database"}
        /\ IsOpen(req[s].month_id) /\ SnapshotsOf(req[s].month_id) = {}

\* C7 as stated: a month has a snapshot only if it is closed, so get_month_pdf of
\* an open month of the caller is answered NotFound.
C7_SnapshotOnlyIfClosed ==
    /\ \A x \in monthly_snapshots : IsClosed(x.month_id)
    /\ \A s \in Slots :
          (Done(s, {"get_month_pdf"}) /\ IsOpen(req[s].month_id)
             /\ req[s].user = 1) => req[s].result = "NotFound"

\* the summary a finished get_month or get_or_create_current_month returned
Summary(s) == The(req[s].out)
Returned(s) == Done(s, Summaries) /\ req[s].result = "Ok"

\* C8: in a returned summary every budget line's spent_amount is the sum of the
\* amounts of the item rows stored for that month under the line's category, 0
\* when there is none; the allocation rows themselves store no spend.
C8_SpentAmount ==
    /\ \A b \in monthly_budgets : "spent_amount" \notin DOMAIN b
    /\ \A s \in Slots :
          Returned(s) =>
             \A b \in Summary(s).budgets :
                b.spent_amount =
                    SumAmount({ i \in ItemsOf(req[s].month_id) : i.category_id = b.category_id })

\* C8 witness: a summary with a budget line that has spend and one that has none,
\* while the month holds an item of each of two categories
C8_Witness ==
    \E s \in Slots :
        /\ Returned(s)
        /\ \E b \in Summary(s).budgets : b.spent_amount > 0
        /\ \E b \in Summary(s).budgets : b.spent_amount = 0
        /\ \E i, j \in ItemsOf(req[s].month_id) : i.category_id # j.category_id

\* C9 as stated: remaining = total_income - total_fixed - total_spent, the three
\* totals being the sums over the month's income rows, the owner's fixed-expense
\* rows and the month's item rows.
C9_Remaining ==
    \A s \in Slots :
        Returned(s) =>
            Summary(s).remaining =
                SumAmount(IncomeOf(req[s].month_id))
                - SumAmount({ e \in fixed_expenses : e.user_id = req[s].user })
                - SumAmount(ItemsOf(req[s].month_id))

\* C10 as stated: total_spent is the sum of the amounts of every item row stored
\* for the month, also of the items whose category template has been deleted.
C10_TotalSpent ==
    \A s \in Slots :
        Returned(s) => Summary(s).total_spent = SumAmount(ItemsOf(req[s].month_id))

\* ------------------------------------------------------------------ C11 .. C20
Answered(s, op, result) == Done(s, {op}) /\ req[s].result = result
CategoryRows(c) == { b \in monthly_budgets : b.category_id = c }

C12_NoRowAfterClose ==
    [][\A s \in Slots :
         (req[s].pc = "cc_propagate" /\ req'[s] # req[s]) =>
            \A x \in months :
               x.is_closed =>
                  { b \in monthly_budgets' : b.month_id = x.id } \subseteq monthly_budgets]_vars

\* C13: a get_or_create_current_month that finds no month of the caller for the
\* current period creates one open month and one allocation row per category
\* template of the caller, at the template's default amount; one that finds the
\* month writes nothing; both return the summary of the caller's month of that
\* period, and there is one such month.
C13_GetOrCreate ==
    \A s \in Slots :
        Done(s, {"get_or_create_current_month"}) =>
            LET r == req[s]
                summary == Summary(s)
                month == summary.month
                mine == { c \in budget_categories : c.user_id = r.user }
            IN /\ r.result = "Ok"
               /\ { x \in months : x.user_id = r.user /\ x.period = r.period } = {month}
               /\ <<"missing", "month">> \in r.refs =>
                     /\ ~ month.is_closed /\ month.closed_at = 0
                     /\ "months" \in r.wrote
                     /\ Cardinality(BudgetsOf(month.id)) = Cardinality(mine)
                     /\ \A c \in mine :
                           \E b \in BudgetsOf(month.id) :
                               b.category_id = c.id /\ b.allocated_amount = c.default_amount
               /\ <<"missing", "month">> \notin r.refs => r.wrote = {}
               /\ summary.income_entries = IncomeOf(month.id)
               /\ summary.fixed_expenses = { e \in fixed_expenses : e.user_id = r.user }
               /\ { b.id : b \in summary.budgets } = { b.id : b \in BudgetsOf(month.id) }
               /\ \A b \in summary.budgets :
                     \E x \in BudgetsOf(month.id) :
                         x.id = b.id /\ x.allocated_amount = b.allocated_amount

\* C13 witness: a month was created for a user who has a category template and
\* a closed month of an earlier period, while the other user has a template too
C13_Witness ==
    \E s \in Slots :
        /\ Answered(s, "get_or_create_current_month", "Ok")
        /\ <<"missing", "month">> \in req[s].refs
        /\ \E c \in budget_categories : c.user_id = req[s].user
        /\ \E c \in budget_categories : c.user_id # req[s].user
        /\ \E x \in months : x.user_id = req[s].user /\ x.is_closed

\* C14: there is at most one month row per (user, period), also when two
\* get_or_create_current_month requests of one user for one period interleave.
C14_OneMonthPerPeriod ==
    \A x, y \in months : (x.user_id = y.user_id /\ x.period = y.period) => x = y

\* C14 witness: a get_or_create_current_month that found no month lost the race
\* for the INSERT: the month of its period is there and its own INSERT failed
C14_Witness ==
    \E s \in Slots :
        /\ Answered(s, "get_or_create_current_month", "Database")
        /\ <<"missing", "month">> \in req[s].refs
        /\ \E x \in months : x.user_id = req[s].user /\ x.period = req[s].period

\* C15: there is at most one allocation row per (month, category), also when the
\* allocation copy of a new month interleaves with a category's propagation.
C15_OneAllocation ==
    \A x, y \in monthly_budgets :
        (x.month_id = y.month_id /\ x.category_id = y.category_id) => x = y

\* C15 witness: a create_category has finished without inserting an allocation
\* row, because the allocation copy of the new month had inserted the pair first
C15_Witness ==
    \E s \in Slots :
        /\ Answered(s, "create_category", "Ok")
        /\ "monthly_budgets" \notin req[s].wrote
        /\ CategoryRows(The(req[s].out).id) # {}

Foreign(s) == { k \in {"month", "category", "fixed_expense"} : <<"foreign", k>> \in req[s].refs }
Missing(s, kind) == <<"missing", kind>> \in req[s].refs

\* C16 as stated, for the requests whose payload passes validation: every
\* request that names a month, a category or a fixed expense of another user
\* fails with NotFound and returns no data.
C16_ForeignNotFound ==
    \A s \in Slots :
        (req[s].pc = "done" /\ req[s].valid /\ Foreign(s) # {}) =>
            req[s].result = "NotFound" /\ req[s].out = {}

\* what a request that names a row of another user is answered, handler by handler
IsolationResult(s) ==
    LET r == req[s]
    IN IF ~ r.valid THEN "Validation"
       ELSE IF "month" \in Foreign(s) \/ Missing(s, "month") THEN "NotFound"
       ELSE IF r.op \in {"delete_category", "delete_fixed_expense"} THEN "Ok"
       ELSE IF r.op \in {"update_category", "update_fixed_expense"} THEN "NotFound"
       ELSE IF r.closed0 THEN "MonthClosed"
       ELSE IF Missing(s, "item") THEN "NotFound"
       ELSE "InvalidCategory"

\* C16 as amended: a request that names a month, a category or a fixed expense of
\* another user changes no stored row and returns no data; it is answered
\* NotFound when the month, the category of update_category or the expense of
\* update_fixed_expense is the other user's, with the BadRequest of the category
\* check when the category_id of create_item / update_item is (on an open month
\* of the caller, for an existing item), with success and no effect by
\* delete_category and delete_fixed_expense, and with the validation error when
\* its payload is invalid.
C16_Isolation ==
    \A s \in Slots :
        (req[s].pc = "done" /\ Foreign(s) # {}) =>
            /\ req[s].wrote = {}
            /\ req[s].out = {}
            /\ req[s].result = IsolationResult(s)

\* C16 witness: the stored report of a closed month was refused to the other user
C16_Witness ==
    \E s \in Slots :
        /\ Answered(s, "get_month_pdf", "NotFound")
        /\ "month" \in Foreign(s)
        /\ IsClosed(req[s].month_id) /\ SnapshotsOf(req[s].month_id) # {}

\* C17: a close_month is answered NotFound when its month does not exist or is
\* another user's, and with the already-closed error when the month of the caller
\* is closed; a close_month answered with either has written nothing: no
\* snapshot, and is_closed and closed_at as they were.
C17_CloseErrors ==
    \A s \in Slots :
        Done(s, {"close_month"}) =>
            /\ ("month" \in Foreign(s) \/ Missing(s, "month")) =>
                  req[s].result = "NotFound"
            /\ req[s].closed0 => req[s].result = "AlreadyClosed"
            /\ req[s].result = "NotFound" =>
                  ("month" \in Foreign(s) \/ Missing(s, "month")) /\ req[s].wrote = {}
            /\ req[s].result = "AlreadyClosed" => req[s].closed0 /\ req[s].wrote = {}

\* C17 witness: the other user's close_month of an open month was refused, and
\* the month is open and without a snapshot
C17_Witness ==
    \E s \in Slots :
        /\ Answered(s, "close_month", "NotFound")
        /\ "month" \in Foreign(s)
        /\ IsOpen(req[s].month_id) /\ SnapshotsOf(req[s].month_id) = {}

\* C18: a delete_category removes at most the one template row with the given id
\* of the caller and changes nothing else: every allocation row and every item
\* row, of open and of closed months, stays as it is.
C18_DeleteCategoryFrame ==
    [][\A s \in Slots :
         (req[s].pc = "idle" /\ req'[s].op = "delete_category") =>
            /\ monthly_budgets' = monthly_budgets
            /\ items' = items
            /\ budget_categories' \subseteq budget_categories
            /\ Cardinality(budget_categories \ budget_categories') <= 1
            /\ \A c \in budget_categories \ budget_categories' : c.user_id = req'[s].user
            /\ UNCHANGED <<months, fixed_expenses, income_entries, monthly_snapshots>>]_vars

\* C18 witness: a template was deleted, and a closed month still has an item and
\* an allocation that reference it
C18_Witness ==
    \E s \in Slots :
        /\ Answered(s, "delete_category", "Ok")
        /\ "budget_categories" \in req[s].wrote
        /\ \E x \in months, i \in items, b \in monthly_budgets :
              /\ x.is_closed /\ i.month_id = x.id /\ b.month_id = x.id
              /\ i.category_id = b.category_id
              /\ ~ \E c \in budget_categories : c.id = i.category_id

\* C19: the total_fixed of every returned summary, of an open or of a closed
\* month, is the sum of the fixed expenses the caller has stored now, and the
\* returned remaining is computed from it.
C19_FixedUserScoped ==
    \A s \in Slots :
        Returned(s) =>
            LET mine == { e \in fixed_expenses : e.user_id = req[s].user }
            IN /\ Summary(s).fixed_expenses = mine
               /\ Summary(s).total_fixed = SumAmount(mine)
               /\ Summary(s).remaining =
                     Summary(s).total_income - SumAmount(mine) - Summary(s).total_spent

\* C19 witness: the summary of a closed month has a total_fixed other than the
\* one the report archived at its close, while another user has a fixed expense
\* with an amount stored
C19_Witness ==
    \E s \in Slots :
        /\ Returned(s)
        /\ Summary(s).month.is_closed
        /\ \E p \in SnapshotsOf(req[s].month_id) :
              /\ p.pdf_data.total_fixed # 0
              /\ Summary(s).total_fixed # 0
              /\ p.pdf_data.total_fixed # Summary(s).total_fixed
        /\ \E e \in fixed_expenses : e.user_id # req[s].user /\ e.amount # 0

BadCategory(s) == Missing(s, "category") \/ "category" \in Foreign(s)
OnOwnOpenMonth(s) ==
    /\ "month" \notin Foreign(s) /\ ~ Missing(s, "month")
    /\ ~ req[s].closed0

\* C20 as stated, for the requests whose payload passes validation: a
\* create_item, or an update_item that supplies a category_id, on an open month
\* of the caller, with a category that does not exist or is another user's,
\* fails with BadRequest "Invalid category" and writes no item.
C20_InvalidCategory ==
    \A s \in Slots :
        (Done(s, {"create_item", "update_item"}) /\ req[s].valid
           /\ OnOwnOpenMonth(s) /\ BadCategory(s)) =>
            /\ req[s].result = "InvalidCategory"
            /\ req[s].wrote = {}

\* C20 as amended: such a request writes no row; it fails with BadRequest
\* "Invalid category" when its payload passes validation and, for update_item,
\* the item exists under the month; with the validation error when the payload
\* is invalid, and update_item with NotFound when the item does not exist.
C20_InvalidCategoryChecked ==
    \A s \in Slots :
        (Done(s, {"create_item", "update_item"}) /\ OnOwnOpenMonth(s) /\ BadCategory(s)) =>
            /\ req[s].wrote = {}
            /\ req[s].out = {}
            /\ req[s].result = IF ~ req[s].valid THEN "Validation"
                               ELSE IF Missing(s, "item") THEN "NotFound"
                               ELSE "InvalidCategory"

\* C20 witness: an update_item of an existing item was refused the other user's
\* category
C20_Witness ==
    \E s \in Slots :
        /\ Answered(s, "update_item", "InvalidCategory")
        /\ OnOwnOpenMonth(s) /\ "category" \in Foreign(s)
        /\ ItemsOf(req[s].month_id) # {}

\* ------------------------------------------------------------------ C21 .. C30

C28_Idempotent ==
    [][(req[0].op \notin {"none", "close_month"} /\ req'[0] = req[0])
          => UNCHANGED tables]_vars

\* C28 as amended: the same, for the requests other than close_month and the
\* four creations.
C28_IdempotentButCreates ==
    [][(req[0].op \notin {"none", "close_month", "create_category", "create_item",
                         "create_income", "create_fixed_expense"} /\ req'[0] = req[0])
          => UNCHANGED tables]_vars

\* C28 witness: an update_item that changed the item when it was first performed
\* has been performed again and answered
C28_Witness ==
    /\ req[0].op = "update_item" /\ req[0].result = "Ok" /\ req[0].wrote = {"items"}
    /\ Answered(1, "update_item", "Ok")

\* C23: a create_category whose label is shorter than 1 or longer than 100, or
\* whose default amount is negative, is answered with the validation error at
\* its first statement and changes no stored row; any other create_category
\* inserts its template.
C23_CreateCategoryValidation ==
    [][\A s \in Slots :
         (req[s].pc = "idle" /\ req'[s].op = "create_category") =>
            LET l == The(req'[s].label)
                a == The(req'[s].amount)
            IN IF l < 1 \/ l > 100 \/ a < 0
               THEN /\ req'[s].pc = "done" /\ req'[s].result = "Validation"
                    /\ UNCHANGED <<tables, nextId>>
               ELSE /\ req'[s].pc = "cc_months"
                    /\ budget_categories' = budget_categories \cup
                          {[id |-> req'[s].id, user_id |-> req'[s].user, label |-> l,
                            default_amount |-> a]}
      ]_vars

\* C23 witness: a create_category with a label of 101 characters and a valid
\* amount has been refused while the caller has an open month, and no template
\* and no allocation is stored
C23_Witness ==
    \E s \in Slots :
        /\ Answered(s, "create_category", "Validation")
        /\ req[s].label = Some(101) /\ req[s].amount = Some(1)
        /\ \E m \in months : m.user_id = req[s].user /\ ~ m.is_closed
        /\ budget_categories = {} /\ monthly_budgets = {}

\* C24: in every reachable state every stored amount is non-negative: the
\* default amounts of the categories, the allocated amounts, the income
\* amounts, the item amounts and the fixed-expense amounts
C24_NonNegative ==
    /\ \A c \in budget_categories : c.default_amount >= 0
    /\ \A b \in monthly_budgets : b.allocated_amount >= 0
    /\ \A e \in income_entries : e.amount >= 0
    /\ \A i \in items : i.amount >= 0
    /\ \A e \in fixed_expenses : e.amount >= 0

\* C25: an allocation INSERT that is refused (the pair of month and category is
\* already stored) in the copy loop of get_or_create_current_month or in the
\* propagation loop of create_category does not end the request: the month,
\* respectively the category, stays stored, the loop goes on with the
\* remaining rows, and a request that has created its month or its category
\* is answered Ok.
C25_BestEffort ==
    [][\A s \in Slots :
         LET r == req[s]
             q == req'[s]
         IN /\ (r.pc = "goc_copy" /\ q # r
                  /\ ~ BudgetInsertable(r.month_id, MinId(r.rows).id)) =>
                   /\ q.rows = r.rows \ {MinId(r.rows)}
                   /\ q.pc = (IF q.rows = {} THEN "sum_month" ELSE "goc_copy")
                   /\ \E m \in months' : m.id = r.month_id
                   /\ UNCHANGED tables
            /\ (r.pc = "cc_propagate" /\ q # r
                  /\ ~ BudgetInsertable(MinId(r.rows).id, r.id)) =>
                   /\ IF r.rows \ {MinId(r.rows)} = {}
                      THEN q.pc = "done" /\ q.result = "Ok"
                      ELSE q.pc = "cc_propagate" /\ q.rows = r.rows \ {MinId(r.rows)}
                   /\ \E c \in budget_categories' : c.id = r.id
                   /\ UNCHANGED tables
            /\ (q.pc = "done" /\ r.pc # "done"
                  /\ \/ q.op = "get_or_create_current_month" /\ "months" \in q.wrote
                     \/ q.op = "create_category" /\ "budget_categories" \in q.wrote) =>
                   q.result = "Ok"
      ]_vars

\* C25 witness: the copy loop of a new month has met the allocation of its
\* first category already stored, has inserted nothing so far and still has
\* the second category to copy
C25_Witness ==
    \E s \in Slots :
        /\ req[s].op = "get_or_create_current_month" /\ req[s].pc = "goc_copy"
        /\ req[s].wrote = {"months"}
        /\ Cardinality(req[s].rows) = 1
        /\ \E b \in monthly_budgets :
               /\ b.month_id = req[s].month_id
               /\ \A c \in req[s].rows : b.category_id < c.id
        /\ \E m \in months : m.id = req[s].month_id

\* C30: once no get_or_create_current_month and no create_category is between
\* its statements, every month of a user has an allocation for every category
\* of that user: a category created while the month was being created is
\* never missed by both the copy of the month and the propagation of the
\* category (no month is closed and no category deleted here).
C30_NeverMissed ==
    (\A s \in Slots : req[s].pc \in {"idle", "done"}) =>
        \A m \in months, c \in budget_categories :
            m.user_id = c.user_id =>
                \E b \in monthly_budgets : b.month_id = m.id /\ b.category_id = c.id

\* C30 witness: a get_or_create_current_month that created its month has
\* completed without copying any allocation, its month holds the allocation
\* that a create_category, run between its statements, has propagated, and no
\* request is left between its statements
C30_Witness ==
    \E s \in Slots :
        /\ Answered(s, "get_or_create_current_month", "Ok")
        /\ req[s].wrote = {"months"}
        /\ \A t \in Slots \ {s} : req[t].pc = "idle"
        /\ \E b \in monthly_budgets, c \in budget_categories :
               b.month_id = req[s].month_id /\ b.category_id = c.id

\* C26: the example scenario, step by step.  A get_or_create_current_month
\* that creates the month leaves it with exactly one allocation for each
\* category of the user, at the category's default amount; a summary of a
\* month whose only item belongs to a stored category shows the item's amount
\* as spent_amount of that category's budget line and as total_spent; a
\* close_month answered Ok has stored a snapshot of the month and set
\* is_closed; a valid create_item on a closed month of the caller is refused
\* with "Month is closed" and stores nothing.
C26_Scenario ==
    \A s \in Slots :
        LET r == req[s]
            allocations == { b \in monthly_budgets : b.month_id = r.month_id }
            its == { i \in items : i.month_id = r.month_id }
        IN /\ (Answered(s, "get_or_create_current_month", "Ok") /\ "months" \in r.wrote) =>
                /\ \E m \in months : m.id = r.month_id /\ m.user_id = r.user /\ ~ m.is_closed
                /\ \A c \in budget_categories : c.user_id = r.user =>
                       \E b \in allocations :
                           b.category_id = c.id /\ b.allocated_amount = c.default_amount
                /\ Cardinality(allocations) =
                       Cardinality({ c \in budget_categories : c.user_id = r.user })
           /\ (Done(s, {"get_month", "get_or_create_current_month"}) /\ r.result = "Ok"
                 /\ Cardinality(its) = 1
                 /\ \E c \in budget_categories : c.id = The(its).category_id) =>
                \A sm \in r.out :
                    /\ sm.total_spent = The(its).amount
                    /\ \A b \in sm.budgets :
                           b.category_id = The(its).category_id =>
                               b.spent_amount = The(its).amount
           /\ Answered(s, "close_month", "Ok") =>
                /\ \E x \in monthly_snapshots : x.month_id = r.month_id
                /\ IsClosed(r.month_id)
           /\ (Done(s, {"create_item"}) /\ r.closed0 /\ r.valid) =>
                r.result = "MonthClosed" /\ r.wrote = {}

\* C26 witness: the end of the scenario.  One category with default 1, one
\* month with its one allocation of 1 and its one item of 1 in that category,
\* the month closed with a snapshot that reports total_budgeted 1 and
\* total_spent 1, and a valid create_item on it refused with "Month is closed"
C26_Witness ==
    /\ Answered(1, "create_item", "MonthClosed") /\ req[1].valid
    /\ \E c \in budget_categories, m \in months, b \in monthly_budgets, i \in items,
          x \in monthly_snapshots :
        /\ budget_categories = {c} /\ months = {m} /\ monthly_budgets = {b} /\ items = {i}
        /\ c.default_amount = 1 /\ m.is_closed /\ m.id = req[1].month_id
        /\ b.month_id = m.id /\ b.category_id = c.id /\ b.allocated_amount = 1
        /\ i.month_id = m.id /\ i.category_id = c.id /\ i.amount = 1
        /\ x.month_id = m.id /\ x.pdf_data.total_spent = 1 /\ x.pdf_data.total_budgeted = 1

\* C27: no statement of get_month, get_month_pdf, list_months, list_items,
\* list_income, list_monthly_budgets, nor of a get_or_create_current_month
\* that has found its month stored, changes a stored row, and such a request
\* is answered without having written to any table.
C27_ReadsKeepRows ==
    [][\A s \in Slots :
         (req'[s] # req[s] /\ req[s].pc # "done"
            /\ req'[s].op \in {"get_month", "get_month_pdf", "list_months", "list_items",
                              "list_income", "list_monthly_budgets",
                              "get_or_create_current_month"}
            /\ (req'[s].op = "get_or_create_current_month" => req'[s].refs = {})) =>
               UNCHANGED tables /\ req'[s].wrote = {}
      ]_vars

\* C27 witness: a get_or_create_current_month that found its month stored has
\* returned its summary, with an allocation, an item and an income entry
\* stored for that month
C27_Witness ==
    /\ Answered(1, "get_or_create_current_month", "Ok")
    /\ req[1].refs = {} /\ req[1].wrote = {}
    /\ \E b \in monthly_budgets : b.month_id = req[1].month_id
    /\ \E i \in items : i.month_id = req[1].month_id
    /\ \E e \in income_entries : e.month_id = req[1].month_id
    /\ req[1].out # {}

\* C29: in a returned summary total_budgeted is the sum of allocated_amount
\* over all allocation rows stored for the month, and the budget list has one
\* line for every allocation row of the month, also for the rows whose
\* category template has been deleted.
C29_TotalBudgeted ==
    \A s \in Slots :
        Returned(s) =>
            LET allocations == { b \in monthly_budgets : b.month_id = req[s].month_id }
            IN /\ Summary(s).total_budgeted = SumAllocated(allocations)
               /\ { b.id : b \in Summary(s).budgets } = { b.id : b \in allocations }

\* ------------------------------------------------------------------ C31 .. C36
\* C31: at the step that sets is_closed, the income entries, the items and the
\* allocations from which the summary of the archived report was computed are
\* exactly the income entries, items and allocations stored for the month,
\* under any interleaving with concurrent requests.
C31_SnapshotOfFrozenMonth ==
    [][\A s \in Slots :
         (req[s].pc = "close_update" /\ req'[s].pc = "close_reselect") =>
            LET m == req[s].month_id
                sm == req[s].summary
            IN /\ sm.income_entries = IncomeOf(m)
               /\ { [id |-> i.id, category_id |-> i.category_id, amount |-> i.amount]
                    : i \in sm.items } =
                  { [id |-> i.id, category_id |-> i.category_id, amount |-> i.amount]
                    : i \in ItemsOf(m) }
               /\ { [id |-> b.id, allocated_amount |-> b.allocated_amount]
                    : b \in sm.budgets } =
                  { [id |-> b.id, allocated_amount |-> b.allocated_amount]
                    : b \in BudgetsOf(m) }
      ]_vars

\* C32: no statement of a request of one user inserts, modifies or deletes a
\* row owned by another user: the other user's categories, fixed expenses and
\* months, and the allocations, income entries, items and snapshots under the
\* other user's months, whatever ids the request names.
C32_WriteIsolation ==
    [][\A s \in Slots, b \in Users :
         (req'[s] # req[s] /\ req[s].pc # "done" /\ req'[s].user # b) =>
            LET mine == { m.id : m \in { x \in months : x.user_id = b } }
            IN /\ { c \in budget_categories' : c.user_id = b } =
                  { c \in budget_categories : c.user_id = b }
               /\ { e \in fixed_expenses' : e.user_id = b } =
                  { e \in fixed_expenses : e.user_id = b }
               /\ { m \in months' : m.user_id = b } = { m \in months : m.user_id = b }
               /\ { x \in monthly_budgets' : x.month_id \in mine } =
                  { x \in monthly_budgets : x.month_id \in mine }
               /\ { x \in income_entries' : x.month_id \in mine } =
                  { x \in income_entries : x.month_id \in mine }
               /\ { x \in items' : x.month_id \in mine } =
                  { x \in items : x.month_id \in mine }
               /\ { x \in monthly_snapshots' : x.month_id \in mine } =
                  { x \in monthly_snapshots : x.month_id \in mine }
      ]_vars

\* C32 witness: an update_category that named a category of the other user and
\* carried a valid payload has been answered, while the other user has an open
\* month with an allocation, an item and an income entry
C32_Witness ==
    \E s \in Slots :
        /\ Done(s, {"update_category"}) /\ req[s].valid
        /\ "category" \in Foreign(s)
        /\ \E m \in months, x \in monthly_budgets, i \in items, e \in income_entries :
              /\ m.user_id # req[s].user /\ ~ m.is_closed
              /\ x.month_id = m.id /\ i.month_id = m.id /\ e.month_id = m.id

C35_ClosedAt ==
    [][/\ \A y \in months' : (y.closed_at # 0) <=> y.is_closed
       /\ \A y \in months' :
            (~ \E x \in months : x.id = y.id) => ~ y.is_closed /\ y.closed_at = 0
       /\ \A x \in months, y \in months' :
            (x.id = y.id /\ ~ x.is_closed /\ y.is_closed) =>
               x.closed_at = 0 /\ y.closed_at # 0
      ]_vars

\* C35 witness: a close_month has been answered Ok and returned its month with
\* is_closed true and closed_at set, while another month of the store is open
\* with closed_at null
C35_Witness ==
    \E s \in Slots :
        /\ Answered(s, "close_month", "Ok")
        /\ \E y \in req[s].out : y.is_closed /\ y.closed_at # 0 /\ y \in months
        /\ \E x \in months : ~ x.is_closed /\ x.closed_at = 0

\* C36: a close_month of the owner that has found its month open eventually
\* completes, whatever the concurrent item, income, budget and category
\* requests do; unless one of its storage statements or the renderer has
\* failed, it completes with Ok, the month closed and a snapshot stored.
C36_CloseCompletes ==
    (req[1].op = "close_month" /\ req[1].pc = "sum_month")
        ~> /\ Done(1, {"close_month"})
           /\ \/ req[1].result \in {"Internal", "Database"}
              \/ /\ req[1].result = "Ok"
                 /\ IsClosed(req[1].month_id)
                 /\ SnapshotsOf(req[1].month_id) # {}

\* C36 witness: a close_month has completed with Ok, its month closed and its
\* snapshot stored, while a request that changes an item, an income entry or an
\* allocation of that month is between its statements
C36_Witness ==
    /\ Answered(1, "close_month", "Ok")
    /\ IsClosed(req[1].month_id) /\ SnapshotsOf(req[1].month_id) # {}
    /\ req[2].pc \notin {"idle", "done"}
    /\ req[2].op \in {"create_item", "create_income", "update_monthly_budget"}
    /\ req[2].month_id = req[1].month_id

====
